---- MODULE Spec2Model ----
(***************************************************************************)
(* Model of the gold-price analysis engine: the news quantifier and its    *)
(* feedback loop, the ad-hoc analyze route, the pattern detector, the      *)
(* signal predictor and the swing finder.                                  *)
(*                                                                         *)
(* Numbers.  A JavaScript number is modelled as a pair <<n, d>>:           *)
(*   d > 0   the rational n/d, in lowest terms;                            *)
(*   d = 0   <<1,0>> is Infinity, <<-1,0>> is -Infinity, <<0,0>> is NaN;   *)
(*   d < 0   <<0,-1>> is null / undefined.                                 *)
(* Dates are whole days (integers).  A text is modelled by the set of      *)
(* keyword phrases that occur in it as substrings.  Row ids are opaque in  *)
(* the program; here a price's id is its date, an article's id is its      *)
(* externalId (both unique columns) and a quantification's id is           *)
(* <<article, price, k>>, the k-th row made for that pair.                 *)
(***************************************************************************)
EXTENDS Integers, Sequences, FiniteSets, TLC

VARIABLES
    goldPrices,       \* table GoldPrice: set of rows
    newsArticles,     \* table NewsArticle: set of rows
    quantifications,  \* table NewsQuantification: set of rows
    qrun,             \* the running quantifyNewsForPeriod call
    post,             \* the running analyze POST request
    lastCall,         \* HTTP status of the latest feedback request (0: none yet)
    impact,           \* what the latest direct calculateImpactScore call returned
    patternOccurrences, \* table PatternOccurrence: set of rows
    detect,           \* the running detectAndStorePatterns calls, by caller
    detected,         \* what the latest direct detectPatterns call returned
    economicIndicators, \* table EconomicIndicator: set of rows
    prediction,       \* what the latest generatePrediction call returned
    swings,           \* the latest findSwings request and what it returned
    calc,             \* the running calculateDerivedMetrics call
    csv,              \* what the latest importFromCsvContent call returned
    train             \* the running trainPatternModel call

quantVars == <<goldPrices, newsArticles, quantifications, qrun, post, lastCall, impact>>

\* the variables outside the quantifier and the analyze route
patternVars == <<patternOccurrences, detect, detected>>

predictVars == <<economicIndicators, prediction>>

brainVars == <<swings, calc, csv, train>>

outsideQuant == <<patternVars, predictVars, brainVars>>

outsidePattern == <<quantVars, predictVars, brainVars>>

vars == <<quantVars, outsideQuant>>

----------------------------------------------------------------------------
(* Numbers *)

Null == <<0, -1>>
NaN == <<0, 0>>
PosInf == <<1, 0>>
NegInf == <<-1, 0>>

Abs(x) == IF x < 0 THEN -x ELSE x
Sgn(x) == IF x > 0 THEN 1 ELSE IF x < 0 THEN -1 ELSE 0

RECURSIVE Gcd(_, _)
Gcd(a, b) == IF b = 0 THEN a ELSE Gcd(b, a % b)

\* the rational n/d (d /= 0) in lowest terms with a positive denominator
R(n, d) ==
    LET g == Gcd(Abs(n), Abs(d))
        s == IF d < 0 THEN -1 ELSE 1
    IN  <<s * (n \div g), s * (d \div g)>>

N(n) == <<n, 1>>
IsNull(x) == x[2] < 0
IsNaN(x) == x = NaN
IsFinite(x) == x[2] > 0

\* IEEE-754 arithmetic on the modelled numbers (null coerces to 0 as in JS)
Num(x) == IF IsNull(x) THEN N(0) ELSE x

\* n1/d1 + n2/d2 and (n1/d1) * (n2/d2) for d1, d2 > 0, over the least common
\* denominator and with the common factors taken out before multiplying
RatAdd(n1, d1, n2, d2) ==
    R(n1 * (d2 \div Gcd(d1, d2)) + n2 * (d1 \div Gcd(d1, d2)), (d1 \div Gcd(d1, d2)) * d2)

RatMul(n1, d1, n2, d2) ==
    R((n1 \div Gcd(Abs(n1), d2)) * (n2 \div Gcd(Abs(n2), d1)),
      (d1 \div Gcd(Abs(n2), d1)) * (d2 \div Gcd(Abs(n1), d2)))

RNeg(x) == <<-x[1], x[2]>>
RAbs(x) == <<Abs(x[1]), x[2]>>

RAdd(a, b) ==
    LET x == Num(a)
        y == Num(b)
    IN  IF IsNaN(x) \/ IsNaN(y) THEN NaN
        ELSE IF x[2] = 0 /\ y[2] = 0 THEN (IF x = y THEN x ELSE NaN)
        ELSE IF x[2] = 0 THEN x
        ELSE IF y[2] = 0 THEN y
        ELSE RatAdd(x[1], x[2], y[1], y[2])

RSub(a, b) == RAdd(a, RNeg(Num(b)))

RMul(a, b) ==
    LET x == Num(a)
        y == Num(b)
    IN  IF IsNaN(x) \/ IsNaN(y) THEN NaN
        ELSE IF x[2] = 0 \/ y[2] = 0
             THEN (IF x[1] = 0 \/ y[1] = 0 THEN NaN ELSE <<Sgn(x[1]) * Sgn(y[1]), 0>>)
        ELSE RatMul(x[1], x[2], y[1], y[2])

RDiv(a, b) ==
    LET x == Num(a)
        y == Num(b)
    IN  IF IsNaN(x) \/ IsNaN(y) THEN NaN
        ELSE IF x[2] = 0 /\ y[2] = 0 THEN NaN
        ELSE IF x[2] = 0 THEN <<x[1] * (IF y[1] < 0 THEN -1 ELSE 1), 0>>
        ELSE IF y[2] = 0 THEN N(0)
        ELSE IF y[1] = 0 THEN (IF x[1] = 0 THEN NaN ELSE <<Sgn(x[1]), 0>>)
        ELSE RatMul(x[1], x[2], Sgn(y[1]) * y[2], Abs(y[1]))

\* comparisons: every comparison with NaN is false
RLt(a, b) ==
    LET x == Num(a)
        y == Num(b)
    IN  IF IsNaN(x) \/ IsNaN(y) THEN FALSE
        ELSE IF x[2] = 0 /\ y[2] = 0 THEN x[1] < y[1]
        ELSE IF x[2] = 0 THEN x[1] < 0
        ELSE IF y[2] = 0 THEN y[1] > 0
        ELSE x[1] * y[2] < y[1] * x[2]

RLe(a, b) ==
    LET x == Num(a)
        y == Num(b)
    IN  ~IsNaN(x) /\ ~IsNaN(y) /\ (x = y \/ RLt(x, y))

RGt(a, b) == RLt(b, a)
RGe(a, b) == RLe(b, a)

\* Math.min / Math.max: NaN if either argument is NaN
RMin(a, b) == IF IsNaN(Num(a)) \/ IsNaN(Num(b)) THEN NaN
              ELSE IF RLe(a, b) THEN Num(a) ELSE Num(b)
RMax(a, b) == IF IsNaN(Num(a)) \/ IsNaN(Num(b)) THEN NaN
              ELSE IF RGe(a, b) THEN Num(a) ELSE Num(b)

\* the value lies in the closed interval [lo, hi] (false for NaN and null)
InRange(x, lo, hi) == ~IsNull(x) /\ RLe(N(lo), x) /\ RLe(x, N(hi))

\* JavaScript truthiness of a number: null, 0 and NaN are falsy
Truthy(x) == ~IsNull(x) /\ ~IsNaN(x) /\ x[1] /= 0

----------------------------------------------------------------------------
(* Sequences and sets *)

Range(s) == {s[i] : i \in 1..Len(s)}

Max2(a, b) == IF a >= b THEN a ELSE b
Min2(a, b) == IF a <= b THEN a ELSE b

RECURSIVE Flatten(_)
\* the concatenation of a sequence of sequences
Flatten(ss) == IF ss = <<>> THEN <<>> ELSE Head(ss) \o Flatten(Tail(ss))

RECURSIVE RSumRange(_, _, _)
\* xs[lo] + ... + xs[hi]; the arithmetic is exact, so the sum is the one the
\* program's left-to-right reduce yields, whatever the grouping
RSumRange(xs, lo, hi) ==
    IF lo > hi THEN N(0)
    ELSE IF lo = hi THEN Num(xs[lo])
    ELSE RAdd(RSumRange(xs, lo, (lo + hi) \div 2), RSumRange(xs, (lo + hi) \div 2 + 1, hi))

\* reduce((a, b) => a + b, 0)
RSum(xs) == RSumRange(xs, 1, Len(xs))

\* Math.max(...values) and Math.min(...values) of a non-empty set of numbers
SetMax(S) == CHOOSE x \in S : \A y \in S : RGe(x, y)
SetMin(S) == CHOOSE x \in S : \A y \in S : RLe(x, y)

\* Math.sqrt of a finite number >= 0, rounded down to a multiple of 1/SqrtScale
\* (the program's square roots are rounded to the nearest double)
SqrtScale == 100
Sqrt(x) ==
    LET n == (x[1] * SqrtScale * SqrtScale) \div x[2]
        r == CHOOSE k \in 0..(n + 1) : k * k <= n /\ n < (k + 1) * (k + 1)
    IN  R(r, SqrtScale)

----------------------------------------------------------------------------
(* Tables.  Prisma semantics of the calls the services make. *)

\* a GoldPrice row; derived metrics not given are null
PriceRow(date, close, dcp, vol) ==
    [id |-> date, date |-> date, closePrice |-> close, dailyChange |-> Null,
     dailyChangePct |-> dcp, volatility7d |-> vol, volatility30d |-> Null,
     sma20 |-> Null, sma50 |-> Null, sma200 |-> Null]

\* a NewsArticle row; category "" stands for null
ArticleRow(externalId, publishedAt, category, text, sentiment) ==
    [id |-> externalId, externalId |-> externalId, publishedAt |-> publishedAt,
     category |-> category, text |-> text, sentiment |-> sentiment]

\* prisma.<table>.update: the fields named in data are overwritten, the rest kept
PrismaUpdate(row, data) ==
    [f \in DOMAIN row |-> IF f \in DOMAIN data THEN data[f] ELSE row[f]]

\* the day on which the requests are served (Date.now(), in days)
Today == 31

\* a new NewsQuantification row: the fields of the create data, the human
\* fields and algorithmScore (which no writer sets) at their column defaults,
\* createdAt at the day of the insert
NewQuantification(k, data) ==
    [id |-> <<data.newsArticleId, data.goldPriceId, k>>, newsArticleId |-> data.newsArticleId, goldPriceId |-> data.goldPriceId,
     impactScore |-> data.impactScore, confidenceScore |-> data.confidenceScore,
     lagDays |-> data.lagDays,
     impactCategory |-> IF "impactCategory" \in DOMAIN data THEN data.impactCategory ELSE "",
     reasoning |-> data.reasoning, humanVerified |-> FALSE, humanScore |-> Null,
     algorithmScore |-> Null, createdAt |-> Today]

QuantOf(quants, a, p) == {q \in quants : q.newsArticleId = a /\ q.goldPriceId = p}

\* an insert that would not look for the row of the pair first
InsertQuantification(quants, a, p, update, create) ==
    quants \cup {NewQuantification(Cardinality(QuantOf(quants, a, p)) + 1, create)}

\* prisma.newsQuantification.upsert on the unique key (newsArticleId, goldPriceId)
UpsertQuantification(quants, a, p, update, create) ==
    IF QuantOf(quants, a, p) /= {}
    THEN {IF q \in QuantOf(quants, a, p) THEN PrismaUpdate(q, update) ELSE q : q \in quants}
    ELSE quants \cup {NewQuantification(1, create)}

----------------------------------------------------------------------------
(* News quantifier: quantifier.ts *)

CategoryNames ==
    {"inflation", "interest_rates", "currency", "geopolitics", "economy",
     "demand", "supply", "general"}

\* CATEGORY_WEIGHTS
CATEGORY_WEIGHTS ==
    [c \in CategoryNames |->
       CASE c = "inflation"      -> [baseImpact |-> R(7, 10), volatilityMultiplier |-> R(12, 10)]
         [] c = "interest_rates" -> [baseImpact |-> R(8, 10), volatilityMultiplier |-> R(13, 10)]
         [] c = "currency"       -> [baseImpact |-> R(6, 10), volatilityMultiplier |-> R(11, 10)]
         [] c = "geopolitics"    -> [baseImpact |-> R(9, 10), volatilityMultiplier |-> R(15, 10)]
         [] c = "economy"        -> [baseImpact |-> R(5, 10), volatilityMultiplier |-> N(1)]
         [] c = "demand"         -> [baseImpact |-> R(6, 10), volatilityMultiplier |-> N(1)]
         [] c = "supply"         -> [baseImpact |-> R(5, 10), volatilityMultiplier |-> R(9, 10)]
         [] c = "general"        -> [baseImpact |-> R(3, 10), volatilityMultiplier |-> R(8, 10)]]

\* SENTIMENT_KEYWORDS.bullish
SentimentBullish ==
    {"gold rises", "gold gains", "gold rally", "gold surges", "safe haven demand",
     "inflation fears", "rate cut", "dovish", "uncertainty", "crisis", "war",
     "dollar weakens", "stimulus", "debt concerns", "recession fears",
     "central bank buying", "gold demand", "etf inflows"}

\* SENTIMENT_KEYWORDS.bearish
SentimentBearish ==
    {"gold falls", "gold drops", "gold declines", "gold tumbles", "risk-on",
     "rate hike", "hawkish", "strong economy", "dollar strength", "dollar rally",
     "inflation eases", "recovery", "stock rally", "bond yields rise",
     "etf outflows", "profit taking"}

\* an analysis that reads every article as bullish, matched keywords or not
analyzeAlwaysBullish(article) ==
    [sentiment |-> "bullish", confidence |-> R(3, 10),
     keywords |-> article.text \cap (SentimentBullish \cup SentimentBearish)]

\* analyzeArticleImpact: keyword counts to sentiment and confidence
analyzeArticleImpact(article) ==
    LET bullishCount == Cardinality(article.text \cap SentimentBullish)
        bearishCount == Cardinality(article.text \cap SentimentBearish)
        totalMatches == bullishCount + bearishCount
        netSentiment == bullishCount - bearishCount
        confidence == RMin(R(9, 10), RAdd(R(3, 10), RMul(N(totalMatches), R(1, 10))))
        matched == article.text \cap (SentimentBullish \cup SentimentBearish)
    IN  IF totalMatches = 0
        THEN [sentiment |-> "neutral", confidence |-> R(3, 10), keywords |-> {}]
        ELSE IF netSentiment > 0
        THEN [sentiment |-> "bullish", confidence |-> confidence, keywords |-> matched]
        ELSE IF netSentiment < 0
        THEN [sentiment |-> "bearish", confidence |-> confidence, keywords |-> matched]
        ELSE [sentiment |-> "neutral", confidence |-> RMul(confidence, R(1, 2)),
              keywords |-> matched]

\* generateReasoning: the parts of the text that vary with the score
generateReasoning(analysis, impactScore, lagDays) ==
    [direction |-> IF RGt(impactScore, N(0)) THEN "bullish"
                   ELSE IF RLt(impactScore, N(0)) THEN "bearish" ELSE "neutral",
     magnitude |-> IF RGt(RAbs(impactScore), N(50)) THEN "strong"
                   ELSE IF RGt(RAbs(impactScore), N(25)) THEN "moderate" ELSE "weak",
     sentiment |-> analysis.sentiment,
     lagNote |-> lagDays > 0]

\* the lag decay of calculateImpactScore
LagDecay(lagDays) == RMax(R(2, 10), RSub(N(1), RMul(N(lagDays), R(15, 100))))

\* calculateImpactScore once both rows are found
ImpactOf(article, priceData) ==
    LET lagDays == priceData.date - article.publishedAt
        analysis == analyzeArticleImpact(article)
        category == IF article.category = "" THEN "general" ELSE article.category
        weights == IF category \in CategoryNames THEN CATEGORY_WEIGHTS[category]
                   ELSE CATEGORY_WEIGHTS["general"]
        base == IF analysis.sentiment = "bullish"
                THEN RMul(RMul(weights.baseImpact, N(50)), analysis.confidence)
                ELSE IF analysis.sentiment = "bearish"
                THEN RMul(RMul(RNeg(weights.baseImpact), N(50)), analysis.confidence)
                ELSE N(0)
        dcp == priceData.dailyChangePct
        priceDirection == IF RGt(dcp, N(0)) THEN 1 ELSE -1
        sentimentDirection == IF analysis.sentiment = "bullish" THEN 1
                              ELSE IF analysis.sentiment = "bearish" THEN -1 ELSE 0
        withPrice == IF ~IsNull(dcp) /\ priceDirection = sentimentDirection
                        /\ sentimentDirection /= 0
                     THEN RMul(base, RAdd(N(1), RDiv(RAbs(dcp), N(100))))
                     ELSE base
        withVol == IF ~IsNull(dcp) /\ ~IsNull(priceData.volatility7d)
                   THEN RMul(withPrice,
                             RAdd(N(1), RDiv(RMul(priceData.volatility7d,
                                                  weights.volatilityMultiplier), N(100))))
                   ELSE withPrice
        lagDecay == LagDecay(lagDays)
        impactScore == RMax(N(-100), RMin(N(100), RMul(withVol, lagDecay)))
    IN  [ok |-> TRUE,
         newsArticleId |-> article.id,
         goldPriceId |-> priceData.id,
         impactScore |-> impactScore,
         confidenceScore |-> RMul(analysis.confidence, lagDecay),
         lagDays |-> lagDays,
         impactCategory |-> category,
         reasoning |-> generateReasoning(analysis, impactScore, lagDays)]

\* a lookup that answers a missing article or price with a neutral result
calculateImpactScoreDefaulting(newsArticleId, goldPriceId) ==
    LET as == {a \in newsArticles : a.id = newsArticleId}
        ps == {p \in goldPrices : p.id = goldPriceId}
    IN  IF as = {} \/ ps = {}
        THEN [ok |-> TRUE, newsArticleId |-> newsArticleId, goldPriceId |-> goldPriceId,
              impactScore |-> N(0), confidenceScore |-> N(0)]
        ELSE ImpactOf(CHOOSE a \in as : TRUE, CHOOSE p \in ps : TRUE)

\* calculateImpactScore: throws when the article or the price is not found
calculateImpactScore(newsArticleId, goldPriceId) ==
    LET as == {a \in newsArticles : a.id = newsArticleId}
        ps == {p \in goldPrices : p.id = goldPriceId}
    IN  IF as = {} \/ ps = {}
        THEN [ok |-> FALSE]
        ELSE ImpactOf(CHOOSE a \in as : TRUE, CHOOSE p \in ps : TRUE)

\* a direct call of the public method; a throw leaves no result
ImpactCall(newsArticleId, goldPriceId) ==
    /\ impact' = calculateImpactScore(newsArticleId, goldPriceId)
    /\ UNCHANGED <<goldPrices, newsArticles, quantifications, qrun, post, lastCall>>
    /\ UNCHANGED outsideQuant

RECURSIVE PricesAsc(_)
\* GoldPrice rows ordered by date ascending (date is a unique column)
PricesAsc(S) ==
    IF S = {} THEN <<>>
    ELSE LET m == CHOOSE x \in S : \A y \in S : x.date <= y.date
         IN  <<m>> \o PricesAsc(S \ {m})

RECURSIVE IdsAsc(_)
IdsAsc(S) ==
    IF S = {} THEN <<>>
    ELSE LET m == CHOOSE x \in S : \A y \in S : x <= y
         IN  <<m>> \o IdsAsc(S \ {m})

QIdle ==
    [pc |-> "idle", prices |-> <<>>, pi |-> 0, maxLagDays |-> 0, articles |-> <<>>,
     ai |-> 0, result |-> [ok |-> FALSE], quantified |-> 0, errors |-> 0]

\* quantifyNewsForPeriod, entry: the prices of the period are read once
QStart(startDate, endDate, maxLagDays) ==
    /\ qrun.pc \in {"idle", "done", "failed"}
    /\ LET prices == PricesAsc({p \in goldPrices : startDate <= p.date /\ p.date <= endDate})
       IN  qrun' = [QIdle EXCEPT !.pc = IF prices = <<>> THEN "done" ELSE "findArticles",
                                 !.prices = prices, !.pi = 1, !.maxLagDays = maxLagDays]
    /\ UNCHANGED <<goldPrices, newsArticles, quantifications, post, lastCall>>
    /\ UNCHANGED <<impact, outsideQuant>>

\* the position after the pair (pi, ai) has been dealt with
QAdvance(q) ==
    IF q.ai < Len(q.articles) THEN [q EXCEPT !.pc = "calc", !.ai = q.ai + 1]
    ELSE IF q.pi < Len(q.prices)
    THEN [q EXCEPT !.pc = "findArticles", !.pi = q.pi + 1, !.articles = <<>>, !.ai = 0]
    ELSE [q EXCEPT !.pc = "done"]

\* a catch block that would give up the rest of the batch
QCatchAborting(q) == [q EXCEPT !.pc = "done", !.errors = q.errors + 1,
                               !.result = [ok |-> FALSE]]

\* the catch block of the inner loop: count the failure, go on with the next pair
QCatch(q) == QAdvance([q EXCEPT !.errors = q.errors + 1, !.result = [ok |-> FALSE]])

\* the articles published within maxLagDays before the current price's date
QFindArticles ==
    /\ qrun.pc = "findArticles"
    /\ LET price == qrun.prices[qrun.pi]
           found == IdsAsc({a.id : a \in {x \in newsArticles :
                                 /\ price.date - qrun.maxLagDays <= x.publishedAt
                                 /\ x.publishedAt <= price.date}})
           q == [qrun EXCEPT !.articles = found, !.ai = 0]
       IN  qrun' = QAdvance(q)
    /\ UNCHANGED <<goldPrices, newsArticles, quantifications, post, lastCall>>
    /\ UNCHANGED <<impact, outsideQuant>>

\* the article query is outside the try block: its failure rejects the whole call
QFindArticlesFails ==
    /\ qrun.pc = "findArticles"
    /\ qrun' = [qrun EXCEPT !.pc = "failed"]
    /\ UNCHANGED <<goldPrices, newsArticles, quantifications, post, lastCall>>
    /\ UNCHANGED <<impact, outsideQuant>>

\* try: calculateImpactScore(article.id, price.id); failures: whether the
\* database may fail the reads
QCalc(failures) ==
    /\ qrun.pc = "calc"
    /\ \E dbFails \in failures :
         LET result == calculateImpactScore(qrun.articles[qrun.ai], qrun.prices[qrun.pi].id)
         IN  qrun' = IF dbFails \/ ~result.ok THEN QCatch(qrun)
                     ELSE [qrun EXCEPT !.pc = "upsert", !.result = result]
    /\ UNCHANGED <<goldPrices, newsArticles, quantifications, post, lastCall>>
    /\ UNCHANGED <<impact, outsideQuant>>

\* an update that would also reset the feedback columns
QuantifyUpdateDataResetting(result) ==
    [impactScore |-> result.impactScore, confidenceScore |-> result.confidenceScore,
     lagDays |-> result.lagDays, impactCategory |-> result.impactCategory,
     reasoning |-> result.reasoning, humanVerified |-> FALSE, humanScore |-> Null]

\* the update data of the upsert in quantifyNewsForPeriod
QuantifyUpdateData(result) ==
    [impactScore |-> result.impactScore, confidenceScore |-> result.confidenceScore,
     lagDays |-> result.lagDays, impactCategory |-> result.impactCategory,
     reasoning |-> result.reasoning]

\* the create data of the upsert in quantifyNewsForPeriod
QuantifyCreateData(a, p, result) ==
    [newsArticleId |-> a, goldPriceId |-> p,
     impactScore |-> result.impactScore, confidenceScore |-> result.confidenceScore,
     lagDays |-> result.lagDays, impactCategory |-> result.impactCategory,
     reasoning |-> result.reasoning]

\* try: upsert the quantification of the pair; quantified++
QUpsert(failures) ==
    /\ qrun.pc = "upsert"
    /\ LET a == qrun.articles[qrun.ai]
           p == qrun.prices[qrun.pi].id
       IN  \E dbFails \in failures :
             IF dbFails
             THEN /\ qrun' = QCatch(qrun)
                  /\ UNCHANGED quantifications
             ELSE /\ quantifications' =
                        UpsertQuantification(quantifications, a, p,
                                             QuantifyUpdateData(qrun.result),
                                             QuantifyCreateData(a, p, qrun.result))
                  /\ qrun' = QAdvance([qrun EXCEPT
                                 !.quantified = qrun.quantified + 1,
                                 !.result = [ok |-> FALSE]])
    /\ UNCHANGED <<goldPrices, newsArticles, post, lastCall>>
    /\ UNCHANGED <<impact, outsideQuant>>

\* the data of the update in submitFeedback
FeedbackData(humanScore) == [humanVerified |-> TRUE, humanScore |-> humanScore]

\* route action 'submit-feedback' and QuantifierService.submitFeedback.
\* id <<>> stands for a missing quantificationId, null for an undefined humanScore.
SubmitFeedback(quantificationId, humanScore) ==
    /\ IF quantificationId = <<>> \/ IsNull(humanScore)
       THEN /\ lastCall' = 400
            /\ UNCHANGED quantifications
       ELSE IF \A q \in quantifications : q.id /= quantificationId
       THEN /\ lastCall' = 500
            /\ UNCHANGED quantifications
       ELSE /\ quantifications' =
                  {IF q.id = quantificationId THEN PrismaUpdate(q, FeedbackData(humanScore))
                   ELSE q : q \in quantifications}
            /\ lastCall' = 200
    /\ UNCHANGED <<goldPrices, newsArticles, qrun, post>>
    /\ UNCHANGED <<impact, outsideQuant>>

\* the 1-10 rating on the -100..100 scale
NormalizedScore(rating) == RMul(RDiv(RSub(rating, N(5)), N(5)), N(100))

\* analyze route, PUT: rate an analysis
RatingPut(quantificationId, rating) ==
    /\ IF quantificationId = <<>> \/ IsNull(rating)
       THEN /\ lastCall' = 400
            /\ UNCHANGED quantifications
       ELSE IF \A q \in quantifications : q.id /= quantificationId
       THEN /\ lastCall' = 500
            /\ UNCHANGED quantifications
       ELSE /\ quantifications' =
                  {IF q.id = quantificationId
                   THEN PrismaUpdate(q, FeedbackData(NormalizedScore(rating)))
                   ELSE q : q \in quantifications}
            /\ lastCall' = 200
    /\ UNCHANGED <<goldPrices, newsArticles, qrun, post>>
    /\ UNCHANGED <<impact, outsideQuant>>

----------------------------------------------------------------------------
(* Ad-hoc analysis: app/api/analyze/route.ts *)

ImpactBullishTerms ==
    {"inflation rises", "inflation surge", "inflation fears", "rate cut", "fed cuts",
     "interest rate cut", "dovish", "quantitative easing", "money printing", "stimulus",
     "safe haven", "geopolitical tension", "war", "conflict", "crisis", "recession fears",
     "economic uncertainty", "dollar weakness", "dollar falls", "usd decline",
     "central bank buying", "gold demand", "gold rally", "gold surge", "record high gold",
     "debt ceiling", "default risk", "banking crisis", "bank failure"}

ImpactBearishTerms ==
    {"rate hike", "fed raises", "interest rate increase", "hawkish", "taper",
     "inflation cools", "inflation falls", "strong dollar", "dollar rises", "usd strength",
     "risk appetite", "stock rally", "equity gains", "gold selloff", "gold falls",
     "gold decline", "yields rise", "bond yields up", "treasury yields", "economic growth",
     "gdp growth", "jobs report strong", "unemployment falls"}

\* IMPACT_KEYWORDS: the weight of each term
ImpactWeight(term) ==
    CASE term \in {"inflation surge", "quantitative easing", "central bank buying"} -> 30
      [] term \in {"inflation rises", "rate cut", "fed cuts", "interest rate cut",
                   "money printing", "war", "dollar weakness", "dollar falls", "usd decline",
                   "record high gold", "banking crisis", "bank failure"} -> 25
      [] term \in {"inflation fears", "dovish", "safe haven", "geopolitical tension",
                   "crisis", "recession fears", "economic uncertainty", "gold demand",
                   "gold surge", "default risk"} -> 20
      [] term \in {"stimulus", "conflict", "gold rally", "debt ceiling"} -> 15
      [] term \in {"rate hike", "fed raises", "interest rate increase", "strong dollar",
                   "dollar rises", "usd strength"} -> -25
      [] term \in {"hawkish", "taper", "inflation cools", "inflation falls", "gold selloff",
                   "yields rise", "bond yields up"} -> -20
      [] term \in {"risk appetite", "gold falls", "gold decline", "treasury yields",
                   "jobs report strong"} -> -15
      [] term \in {"stock rally", "equity gains", "economic growth", "gdp growth",
                   "unemployment falls"} -> -10

RECURSIVE SumWeights(_)
SumWeights(terms) ==
    IF terms = {} THEN 0
    ELSE LET t == CHOOSE x \in terms : TRUE
         IN  ImpactWeight(t) + SumWeights(terms \ {t})

\* analyzeNewsImpact: weighted keyword score plus the API sentiment bonus
analyzeNewsImpact(article) ==
    LET matchedKeywords == article.text \cap (ImpactBullishTerms \cup ImpactBearishTerms)
        keywordScore == N(SumWeights(matchedKeywords))
        score == IF IsNull(article.sentiment) THEN keywordScore
                 ELSE RAdd(keywordScore, RMul(article.sentiment, N(20)))
        confidence == RMin(RAdd(R(3, 10), RMul(N(Cardinality(matchedKeywords)), R(1, 10))),
                           R(95, 100))
    IN  [score |-> RMax(N(-100), RMin(N(100), score)),
         confidence |-> confidence,
         reasoning |-> [reasons |-> matchedKeywords],
         matchedKeywords |-> matchedKeywords]

PostIdle ==
    [pc |-> "idle", body |-> [valid |-> FALSE], fetched |-> <<>>, idx |-> 0,
     goldPriceId |-> 0, storedArticleId |-> 0, results |-> <<>>, status |-> 0]

\* POST, entry: the body is validated and the news are fetched
PostStart(body, fetched) ==
    /\ post.pc \in {"idle", "done"}
    /\ post' = IF ~body.valid
               THEN [PostIdle EXCEPT !.pc = "done", !.body = body, !.status = 400]
               ELSE [PostIdle EXCEPT !.pc = "findPrice", !.body = body, !.fetched = fetched]
    /\ UNCHANGED <<goldPrices, newsArticles, quantifications, qrun, lastCall>>
    /\ UNCHANGED <<impact, outsideQuant>>

\* the position after the price record is known
PostLoop(r) ==
    IF r.idx < Len(r.fetched) THEN [r EXCEPT !.pc = "storeArticle", !.idx = r.idx + 1]
    ELSE [r EXCEPT !.pc = "done", !.status = 200]

\* findFirst: the latest price within one day of priceChangeDate
PostFindPrice ==
    /\ post.pc = "findPrice"
    /\ LET near == {p \in goldPrices : /\ post.body.priceChangeDate - 1 <= p.date
                                       /\ p.date <= post.body.priceChangeDate + 1}
       IN  post' = IF near = {} THEN [post EXCEPT !.pc = "createPrice"]
                   ELSE PostLoop([post EXCEPT !.goldPriceId =
                                    (CHOOSE p \in near : \A o \in near : o.date <= p.date).id])
    /\ UNCHANGED <<goldPrices, newsArticles, quantifications, qrun, lastCall>>
    /\ UNCHANGED <<impact, outsideQuant>>

\* no price nearby: a placeholder price record with closePrice 0 is created
PostCreatePrice ==
    /\ post.pc = "createPrice"
    /\ IF \E p \in goldPrices : p.date = post.body.priceChangeDate
       THEN /\ post' = [post EXCEPT !.pc = "done", !.status = 500]
            /\ UNCHANGED goldPrices
       ELSE /\ goldPrices' = goldPrices \cup
                  {PriceRow(post.body.priceChangeDate, N(0), post.body.priceChangePct, Null)}
            /\ post' = PostLoop([post EXCEPT !.goldPriceId = post.body.priceChangeDate])
    /\ UNCHANGED <<newsArticles, quantifications, qrun, lastCall>>
    /\ UNCHANGED <<impact, outsideQuant>>

\* the article is upserted by externalId
PostStoreArticle ==
    /\ post.pc = "storeArticle"
    /\ LET article == post.fetched[post.idx]
           old == {a \in newsArticles : a.externalId = article.id}
       IN  /\ newsArticles' =
                 IF old /= {}
                 THEN {IF a \in old
                       THEN PrismaUpdate(a, [text |-> article.text,
                                             sentiment |-> article.sentiment])
                       ELSE a : a \in newsArticles}
                 ELSE newsArticles \cup
                        {ArticleRow(article.id, article.publish_date, "",
                                    article.text, article.sentiment)}
           /\ post' = [post EXCEPT !.pc = "upsertQuant", !.storedArticleId = article.id]
    /\ UNCHANGED <<goldPrices, quantifications, qrun, lastCall>>
    /\ UNCHANGED <<impact, outsideQuant>>

\* the update data of the upsert in POST
AnalyzeUpdateData(analysis, lookbackDays) ==
    [impactScore |-> analysis.score, confidenceScore |-> analysis.confidence,
     reasoning |-> analysis.reasoning, lagDays |-> lookbackDays]

\* the create data of the upsert in POST
AnalyzeCreateData(a, p, analysis, lookbackDays) ==
    [newsArticleId |-> a, goldPriceId |-> p,
     impactScore |-> analysis.score, confidenceScore |-> analysis.confidence,
     reasoning |-> analysis.reasoning, lagDays |-> lookbackDays]

\* the quantification of (stored article, price) is upserted and reported
PostUpsertQuant ==
    /\ post.pc = "upsertQuant"
    /\ LET analysis == analyzeNewsImpact(post.fetched[post.idx])
           a == post.storedArticleId
           p == post.goldPriceId
           after == UpsertQuantification(quantifications, a, p,
                                         AnalyzeUpdateData(analysis, post.body.lookbackDays),
                                         AnalyzeCreateData(a, p, analysis,
                                                           post.body.lookbackDays))
           quantification == CHOOSE q \in QuantOf(after, a, p) : TRUE
       IN  /\ quantifications' = after
           /\ post' = PostLoop([post EXCEPT !.results =
                                  Append(post.results,
                                         [id |-> quantification.id,
                                          impactScore |-> analysis.score,
                                          humanRating |-> quantification.humanScore,
                                          humanVerified |-> quantification.humanVerified])])
    /\ UNCHANGED <<goldPrices, newsArticles, qrun, lastCall>>
    /\ UNCHANGED <<impact, outsideQuant>>

----------------------------------------------------------------------------
(* Pattern detector: patternDetector.ts.  A detected pattern carries the   *)
(* fields that are stored; its details text is left out.                   *)

DetectedPattern(patternType, first, last, confidence, predictedMove) ==
    [patternType |-> patternType, startDate |-> first.date, endDate |-> last.date,
     startPriceId |-> first.id, confidence |-> confidence, predictedMove |-> predictedMove]

\* detectCrossPatterns: SMA50 crossing SMA200 between two consecutive rows
detectCrossPatterns(prices) ==
    Flatten([k \in 1..(Len(prices) - 1) |->
        LET prev == prices[k]
            curr == prices[k + 1]
        IN  IF ~Truthy(prev.sma50) \/ ~Truthy(prev.sma200)
               \/ ~Truthy(curr.sma50) \/ ~Truthy(curr.sma200)
            THEN <<>>
            ELSE (IF RLe(prev.sma50, prev.sma200) /\ RGt(curr.sma50, curr.sma200)
                  THEN <<DetectedPattern("golden_cross", curr, curr, R(85, 100), N(5))>>
                  ELSE <<>>)
                 \o
                 (IF RGe(prev.sma50, prev.sma200) /\ RLt(curr.sma50, curr.sma200)
                  THEN <<DetectedPattern("death_cross", curr, curr, R(85, 100), N(-5))>>
                  ELSE <<>>)])

\* the look-back window of detectBreakouts
lookback == 20

\* a breakout confidence without the cap at 0.9
BreakoutConfidenceUncapped(breakoutStrength) ==
    RAdd(R(1, 2), RDiv(breakoutStrength, N(100)))

\* confidence and size of the predicted move of a breakout
BreakoutConfidence(breakoutStrength) ==
    RMin(R(9, 10), RAdd(R(1, 2), RDiv(breakoutStrength, N(100))))
BreakoutMove(breakoutStrength) ==
    RMin(N(8), RAdd(N(2), RDiv(breakoutStrength, N(10))))

\* detectBreakouts: a close outside the range of the previous 20 closes
detectBreakouts(prices) ==
    Flatten([k \in 1..Len(prices) |->
        IF k <= lookback THEN <<>>
        ELSE
        LET curr == prices[k]
            window == {prices[j].closePrice : j \in (k - lookback)..(k - 1)}
            windowHigh == SetMax(window)
            windowLow == SetMin(window)
            windowRange == RSub(windowHigh, windowLow)
            upStrength == RMul(RDiv(RSub(curr.closePrice, windowHigh), windowRange), N(100))
            downStrength == RMul(RDiv(RSub(windowLow, curr.closePrice), windowRange), N(100))
        IN  IF ~Truthy(curr.dailyChangePct) \/ ~Truthy(curr.volatility7d)
            THEN <<>>
            ELSE (IF RGt(curr.closePrice, windowHigh) /\ RGt(curr.dailyChangePct, R(3, 2))
                  THEN <<DetectedPattern("breakout_up", curr, curr,
                             BreakoutConfidence(upStrength), BreakoutMove(upStrength))>>
                  ELSE <<>>)
                 \o
                 (IF RLt(curr.closePrice, windowLow) /\ RLt(curr.dailyChangePct, R(-3, 2))
                  THEN <<DetectedPattern("breakout_down", curr, curr,
                             BreakoutConfidence(downStrength),
                             RNeg(BreakoutMove(downStrength)))>>
                  ELSE <<>>)])

\* detectVolatilitySpikes: volatility7d more than two standard deviations above
\* the average of the series
detectVolatilitySpikes(prices) ==
    LET volatilities == SelectSeq([k \in 1..Len(prices) |-> prices[k].volatility7d],
                                  LAMBDA v : ~IsNull(v))
        count == N(Len(volatilities))
        avgVolatility == RDiv(RSum(volatilities), count)
        squares == [k \in 1..Len(volatilities) |->
                      RMul(RSub(volatilities[k], avgVolatility),
                           RSub(volatilities[k], avgVolatility))]
        stdVolatility == Sqrt(RDiv(RSum(squares), count))
        threshold == RAdd(avgVolatility, RMul(N(2), stdVolatility))
    IN  IF Len(volatilities) = 0 THEN <<>>
        ELSE Flatten([k \in 1..Len(prices) |->
               LET price == prices[k]
               IN  IF ~IsNull(price.volatility7d) /\ RGt(price.volatility7d, threshold)
                   THEN <<DetectedPattern("high_volatility_spike", price, price,
                              RMin(R(9, 10),
                                   RAdd(R(1, 2),
                                        RMul(RDiv(RSub(price.volatility7d, threshold),
                                                  stdVolatility), R(1, 10)))),
                              N(0))>>
                   ELSE <<>>])

\* local extrema of detectDoublePatterns: strictly above (below) the two closes
\* on either side; indices in ascending order
LocalMaxima(prices) ==
    SelectSeq([k \in 1..Len(prices) |-> k],
              LAMBDA k : /\ 3 <= k /\ k <= Len(prices) - 2
                         /\ \A j \in {k - 2, k - 1, k + 1, k + 2} :
                              RLt(prices[j].closePrice, prices[k].closePrice))

LocalMinima(prices) ==
    SelectSeq([k \in 1..Len(prices) |-> k],
              LAMBDA k : /\ 3 <= k /\ k <= Len(prices) - 2
                         /\ \A j \in {k - 2, k - 1, k + 1, k + 2} :
                              RGt(prices[j].closePrice, prices[k].closePrice))

\* the double top of two maxima, if they form one
DoubleTop(prices, fi, si) ==
    LET first == prices[fi]
        second == prices[si]
        daysBetween == second.date - first.date
        priceDiff == RDiv(RAbs(RSub(first.closePrice, second.closePrice)), first.closePrice)
        valley == SetMin({prices[j].closePrice : j \in fi..si})
        avgPeak == RDiv(RAdd(first.closePrice, second.closePrice), N(2))
        depth == RDiv(RSub(avgPeak, valley), avgPeak)
    IN  IF daysBetween < 10 \/ daysBetween > 60 THEN <<>>
        ELSE IF RLe(priceDiff, R(2, 100)) /\ RGe(depth, R(3, 100))
        THEN <<DetectedPattern("double_top", first, second,
                   RMin(R(85, 100), RAdd(R(1, 2), RMul(depth, N(5)))),
                   RNeg(RMin(N(8), RMul(depth, N(100)))))>>
        ELSE <<>>

\* the double bottom of two minima, if they form one
DoubleBottom(prices, fi, si) ==
    LET first == prices[fi]
        second == prices[si]
        daysBetween == second.date - first.date
        priceDiff == RDiv(RAbs(RSub(first.closePrice, second.closePrice)), first.closePrice)
        peak == SetMax({prices[j].closePrice : j \in fi..si})
        avgTrough == RDiv(RAdd(first.closePrice, second.closePrice), N(2))
        height == RDiv(RSub(peak, avgTrough), avgTrough)
    IN  IF daysBetween < 10 \/ daysBetween > 60 THEN <<>>
        ELSE IF RLe(priceDiff, R(2, 100)) /\ RGe(height, R(3, 100))
        THEN <<DetectedPattern("double_bottom", first, second,
                   RMin(R(85, 100), RAdd(R(1, 2), RMul(height, N(5)))),
                   RMin(N(8), RMul(height, N(100))))>>
        ELSE <<>>

\* detectDoublePatterns: every pair of maxima, then every pair of minima
detectDoublePatterns(prices) ==
    LET maxima == LocalMaxima(prices)
        minima == LocalMinima(prices)
    IN  Flatten([i \in 1..(Len(maxima) - 1) |->
            Flatten([d \in 1..(Len(maxima) - i) |->
                DoubleTop(prices, maxima[i], maxima[i + d])])])
        \o
        Flatten([i \in 1..(Len(minima) - 1) |->
            Flatten([d \in 1..(Len(minima) - i) |->
                DoubleBottom(prices, minima[i], minima[i + d])])])

\* sort((a, b) => b.confidence - a.confidence): descending, stable
InsertByConfidence(sorted, x) ==
    LET k == Cardinality({i \in 1..Len(sorted) : RGe(sorted[i].confidence, x.confidence)})
    IN  SubSeq(sorted, 1, k) \o <<x>> \o SubSeq(sorted, k + 1, Len(sorted))

RECURSIVE SortByConfidence(_)
SortByConfidence(ps) ==
    IF ps = <<>> THEN <<>>
    ELSE InsertByConfidence(SortByConfidence(SubSeq(ps, 1, Len(ps) - 1)), ps[Len(ps)])

\* the fewest prices detectPatterns works on
MinPrices == 30

\* the detectors run over whatever rows the range holds
detectPatternsUnguarded(startDate, endDate) ==
    LET prices == PricesAsc({p \in goldPrices :
                               /\ startDate = 0 \/ startDate <= p.date
                               /\ endDate = 0 \/ p.date <= endDate})
    IN  SortByConfidence(detectCrossPatterns(prices) \o detectBreakouts(prices)
                         \o detectVolatilitySpikes(prices)
                         \o detectDoublePatterns(prices))

\* detectPatterns(startDate, endDate); 0 stands for a bound that is not given
detectPatterns(startDate, endDate) ==
    LET prices == PricesAsc({p \in goldPrices :
                               /\ startDate = 0 \/ startDate <= p.date
                               /\ endDate = 0 \/ p.date <= endDate})
    IN  IF Len(prices) < MinPrices THEN <<>>
        ELSE SortByConfidence(detectCrossPatterns(prices) \o detectBreakouts(prices)
                              \o detectVolatilitySpikes(prices)
                              \o detectDoublePatterns(prices))

\* a direct call of detectPatterns
DetectCall(startDate, endDate) ==
    /\ detected' = detectPatterns(startDate, endDate)
    /\ UNCHANGED <<patternOccurrences, detect>>
    /\ UNCHANGED outsidePattern

\* the callers that may run detectAndStorePatterns at the same time
Callers == {1, 2}

DIdle ==
    [pc |-> "idle", startDate |-> 0, endDate |-> 0, patterns |-> <<>>, idx |-> 0,
     stored |-> 0, logged |-> 0, result |-> [detected |-> 0, stored |-> 0]]

\* a lookup that would compare the occurrence's endDate with the start date
FindOccurrencesByEnd(occurrences, patternId, startDate) ==
    {o \in occurrences : o.patternId = patternId /\ o.endDate = startDate}

\* prisma.patternOccurrence.findFirst({ where: { patternId, startDate } }).
\* A pattern's id is modelled by its name: every detected type is a key of
\* PATTERN_DEFINITIONS, which initializePatterns has upserted before the loop.
FindOccurrences(occurrences, patternId, startDate) ==
    {o \in occurrences : o.patternId = patternId /\ o.startDate = startDate}

\* prisma.patternOccurrence.create: a new row; its id is modelled as
\* <<pattern, startDate, k>>, the k-th row made for that pattern and start date
CreateOccurrence(occurrences, d) ==
    occurrences \cup
      {[id |-> <<d.patternType, d.startDate,
                 Cardinality({o \in occurrences : /\ o.patternId = d.patternType
                                                  /\ o.startDate = d.startDate}) + 1>>,
        patternId |-> d.patternType, startPriceId |-> d.startPriceId,
        startDate |-> d.startDate, endDate |-> d.endDate,
        confidence |-> d.confidence, predictedMove |-> d.predictedMove]}

\* detectAndStorePatterns, entry: initializePatterns and detectPatterns; a
\* database failure here is outside the try block and rejects the call
DStart(r, startDate, endDate, failures) ==
    /\ detect[r].pc \in {"idle", "done", "failed"}
    /\ \E dbFails \in failures :
         LET patterns == detectPatterns(startDate, endDate)
             run == [DIdle EXCEPT !.startDate = startDate, !.endDate = endDate]
         IN  detect' = [detect EXCEPT ![r] =
                 IF dbFails THEN [run EXCEPT !.pc = "failed"]
                 ELSE IF patterns = <<>> THEN [run EXCEPT !.pc = "done"]
                 ELSE [run EXCEPT !.pc = "find", !.patterns = patterns, !.idx = 1]]
    /\ UNCHANGED <<patternOccurrences, detected>>
    /\ UNCHANGED outsidePattern

\* the position after the pattern at idx has been dealt with
DAdvance(run) ==
    IF run.idx < Len(run.patterns) THEN [run EXCEPT !.pc = "find", !.idx = run.idx + 1]
    ELSE [run EXCEPT !.pc = "done",
                     !.result = [detected |-> Len(run.patterns), stored |-> run.stored]]

\* the catch block: console.error, then the next pattern
DCatch(run) == DAdvance([run EXCEPT !.logged = run.logged + 1])

\* try: look the pattern up, then look for an occurrence with its key
DFind(r, failures) ==
    /\ detect[r].pc = "find"
    /\ \E dbFails \in failures :
         LET d == detect[r].patterns[detect[r].idx]
             existing == FindOccurrences(patternOccurrences, d.patternType, d.startDate)
         IN  detect' = [detect EXCEPT ![r] =
                 IF dbFails THEN DCatch(detect[r])
                 ELSE IF existing /= {} THEN DAdvance(detect[r])
                 ELSE [detect[r] EXCEPT !.pc = "create"]]
    /\ UNCHANGED <<patternOccurrences, detected>>
    /\ UNCHANGED outsidePattern

\* try: no occurrence was found, so one is created; stored++
DCreate(r, failures) ==
    /\ detect[r].pc = "create"
    /\ \E dbFails \in failures :
         IF dbFails
         THEN /\ detect' = [detect EXCEPT ![r] = DCatch(detect[r])]
              /\ UNCHANGED patternOccurrences
         ELSE /\ patternOccurrences' =
                    CreateOccurrence(patternOccurrences, detect[r].patterns[detect[r].idx])
              /\ detect' = [detect EXCEPT ![r] =
                    DAdvance([detect[r] EXCEPT !.stored = detect[r].stored + 1])]
    /\ UNCHANGED detected
    /\ UNCHANGED outsidePattern

----------------------------------------------------------------------------
(* Signal predictor: predictor.ts *)

\* the last n elements of a sequence: slice(-n)
LastN(xs, n) == SubSeq(xs, Max2(1, Len(xs) - n + 1), Len(xs))

\* the day-to-day changes of a list of closes
Changes(prices) == [i \in 1..(Len(prices) - 1) |-> RSub(prices[i + 1], prices[i])]

\* gains.reduce((a, b) => a + b, 0) / period, 0 for an empty list
AverageOver(xs, period) == IF Len(xs) > 0 THEN RDiv(RSum(xs), N(period)) ELSE N(0)

Negated(xs) == [i \in 1..Len(xs) |-> RNeg(xs[i])]

\* the index from the average gain and loss
RsiFrom(avgGain, avgLoss) ==
    IF avgLoss = N(0) THEN N(100)
    ELSE RSub(N(100), RDiv(N(100), RAdd(N(1), RDiv(avgGain, avgLoss))))

\* calculateRSI(prices, 14)
calculateRSI(prices) ==
    IF Len(prices) < 14 + 1 THEN N(50)
    ELSE RsiFrom(AverageOver(SelectSeq(LastN(Changes(prices), 14),
                                       LAMBDA c : RGt(c, N(0))), 14),
                 AverageOver(Negated(SelectSeq(LastN(Changes(prices), 14),
                                               LAMBDA c : RLt(c, N(0)))), 14))

\* the loop of ema from element i on, acc being the average of the elements
\* before i (the singleton set binds the new average as a value)
RECURSIVE EmaFrom(_, _, _, _)
EmaFrom(data, k, i, acc) ==
    IF i > Len(data) THEN acc
    ELSE CHOOSE e \in {EmaFrom(data, k, i + 1, next) :
                         next \in {RAdd(RMul(data[i], k), RMul(acc, RSub(N(1), k)))}} : TRUE

ema(data, period) == EmaFrom(data, R(2, period + 1), 2, data[1])

\* a signal line that averages the MACD value with an earlier value of 0
MacdDataSmoothed(macd) ==
    [macd |-> macd, signal |-> ema(<<N(0), macd>>, 9),
     histogram |-> RSub(macd, ema(<<N(0), macd>>, 9))]

\* the signal line is the EMA of the single latest MACD value
MacdData(macd) ==
    [macd |-> macd, signal |-> ema(<<macd>>, 9), histogram |-> RSub(macd, ema(<<macd>>, 9))]

calculateMACD(prices) ==
    IF Len(prices) < 26 THEN [macd |-> N(0), signal |-> N(0), histogram |-> N(0)]
    ELSE MacdData(RSub(ema(LastN(prices, 12), 12), ema(LastN(prices, 26), 26)))

Signal(source, name, direction, strength) ==
    [source |-> source, name |-> name, direction |-> direction, strength |-> strength]

RsiSignals(rsi) ==
    IF RGt(rsi, N(70))
    THEN <<Signal("technical", "RSI Overbought", "bearish",
                  RMin(RMul(RSub(rsi, N(70)), N(3)), N(100)))>>
    ELSE IF RLt(rsi, N(30))
    THEN <<Signal("technical", "RSI Oversold", "bullish",
                  RMin(RMul(RSub(N(30), rsi), N(3)), N(100)))>>
    ELSE <<>>

MacdSignals(macdData) ==
    IF RGt(macdData.histogram, N(0)) /\ RGt(macdData.macd, macdData.signal)
    THEN <<Signal("technical", "MACD Bullish", "bullish",
                  RMin(RMul(RAbs(macdData.histogram), N(10)), N(80)))>>
    ELSE IF RLt(macdData.histogram, N(0)) /\ RLt(macdData.macd, macdData.signal)
    THEN <<Signal("technical", "MACD Bearish", "bearish",
                  RMin(RMul(RAbs(macdData.histogram), N(10)), N(80)))>>
    ELSE <<>>

\* the moving-average signal for the gap diff (in percent) of sma50 over sma200
CrossSignalFor(diff) ==
    IF RGt(diff, N(0))
    THEN <<Signal("technical", "Golden Cross Active", "bullish",
                  RMin(RMul(diff, N(5)), N(70)))>>
    ELSE <<Signal("technical", "Death Cross Active", "bearish",
                  RMin(RMul(RAbs(diff), N(5)), N(70)))>>

CrossSignals(latest) ==
    IF Truthy(latest.sma50) /\ Truthy(latest.sma200)
    THEN CrossSignalFor(RMul(RDiv(RSub(latest.sma50, latest.sma200), latest.sma200), N(100)))
    ELSE <<>>

\* the trend signal for the gap (in percent) of the 5-day over the 20-day mean
TrendSignalFor(trendStrength) ==
    IF RGt(RAbs(trendStrength), N(1))
    THEN <<Signal("technical",
                  IF RGt(trendStrength, N(0)) THEN "Uptrend" ELSE "Downtrend",
                  IF RGt(trendStrength, N(0)) THEN "bullish" ELSE "bearish",
                  RMin(RMul(RAbs(trendStrength), N(20)), N(60)))>>
    ELSE <<>>

MeanOfLast(closePrices, n) == RDiv(RSum(LastN(closePrices, n)), N(n))

TrendSignals(closePrices) ==
    IF Len(closePrices) >= 20
    THEN TrendSignalFor(RMul(RDiv(RSub(MeanOfLast(closePrices, 5),
                                       MeanOfLast(closePrices, 20)),
                                  MeanOfLast(closePrices, 20)), N(100)))
    ELSE <<>>

ClosePrices(prices) == [i \in 1..Len(prices) |-> prices[i].closePrice]

\* detectTechnicalPatterns on a non-empty list of price rows
detectTechnicalPatterns(prices) ==
    RsiSignals(calculateRSI(ClosePrices(prices)))
    \o MacdSignals(calculateMACD(ClosePrices(prices)))
    \o CrossSignals(prices[Len(prices)])
    \o TrendSignals(ClosePrices(prices))

\* PATTERN_DEFINITIONS: the typicalImpact of each Pattern row
typicalImpact ==
    [double_top |-> N(-3), double_bottom |-> N(3), head_shoulders |-> N(-5),
     inverse_head_shoulders |-> N(5), breakout_up |-> N(4), breakout_down |-> N(-4),
     golden_cross |-> N(5), death_cross |-> N(-5), support_bounce |-> N(2),
     resistance_rejection |-> N(-2), high_volatility_spike |-> N(0),
     consolidation |-> N(0)]

\* rows ordered by a day field, latest first (orderBy desc); rows of the same
\* day in an arbitrary fixed order
RECURSIVE OrderDesc(_, _)
OrderDesc(rows, day) ==
    IF rows = {} THEN <<>>
    ELSE LET first == CHOOSE x \in rows : \A y \in rows : day[y] <= day[x]
         IN  <<first>> \o OrderDesc(rows \ {first}, day)

Take(xs, n) == SubSeq(xs, 1, Min2(n, Len(xs)))

\* a signal that reads a typicalImpact of 0 as neutral
PatternSignalNeutral(occurrence) ==
    Signal("pattern", occurrence.patternId,
           IF RGt(typicalImpact[occurrence.patternId], N(0)) THEN "bullish"
           ELSE IF RLt(typicalImpact[occurrence.patternId], N(0)) THEN "bearish"
           ELSE "neutral",
           RMin(RAbs(IF Truthy(occurrence.confidence)
                     THEN occurrence.confidence ELSE N(50)), N(100)))

\* the signal of one occurrence, by the typicalImpact of its pattern
PatternSignal(occurrence) ==
    Signal("pattern", occurrence.patternId,
           IF RGt(IF Truthy(typicalImpact[occurrence.patternId])
                  THEN typicalImpact[occurrence.patternId] ELSE N(0), N(0))
           THEN "bullish" ELSE "bearish",
           RMin(RAbs(IF Truthy(occurrence.confidence)
                     THEN occurrence.confidence ELSE N(50)), N(100)))

PatternSignalsOf(recentPatterns) ==
    [i \in 1..Len(recentPatterns) |-> PatternSignal(recentPatterns[i])]

\* getPatternSignals: one signal per occurrence that started in the last 30 days
getPatternSignals(occurrences) ==
    PatternSignalsOf(OrderDesc({o \in occurrences : o.startDate >= Today - 30},
                               [o \in occurrences |-> o.startDate]))

\* quant.humanScore ?? quant.algorithmScore ?? 0
NewsImpactOf(quant) ==
    IF ~IsNull(quant.humanScore) THEN quant.humanScore
    ELSE IF ~IsNull(quant.algorithmScore) THEN quant.algorithmScore
    ELSE N(0)

\* the news signal for an average score, beyond +-10
NewsSignalFor(avgImpact) ==
    IF RGt(RAbs(avgImpact), N(10))
    THEN <<Signal("news", "News Sentiment",
                  IF RGt(avgImpact, N(0)) THEN "bullish" ELSE "bearish",
                  RMin(RAbs(avgImpact), N(100)))>>
    ELSE <<>>

\* the average score of a list of quantifications, if there is any
NewsSignalsOf(recentNews) ==
    IF Len(recentNews) > 0
    THEN NewsSignalFor(RDiv(RSum([i \in 1..Len(recentNews) |-> NewsImpactOf(recentNews[i])]),
                            N(Len(recentNews))))
    ELSE <<>>

\* getNewsSignals: over the ten latest quantifications of the last 7 days
getNewsSignals(quants) ==
    NewsSignalsOf(Take(OrderDesc({q \in quants : q.createdAt >= Today - 7},
                                 [q \in quants |-> q.createdAt]), 10))

\* name.includes(part), tabulated for the indicator names of the model
Includes(name, part) ==
    <<name, part>> \in {<<"CPIAUCSL", "CPI">>, <<"FEDFUNDS", "FEDFUNDS">>,
                        <<"DXY", "DXY">>, <<"inflation expectations", "inflation">>}

\* the reading of one indicator's percentage change
EconomicDirection(name, change) ==
    IF Includes(name, "inflation") \/ Includes(name, "CPI")
    THEN IF RGt(change, N(0)) THEN "bullish" ELSE "bearish"
    ELSE IF Includes(name, "interest") \/ Includes(name, "FEDFUNDS")
    THEN IF RGt(change, N(0)) THEN "bearish" ELSE "bullish"
    ELSE IF Includes(name, "USD") \/ Includes(name, "DXY")
    THEN IF RGt(change, N(0)) THEN "bearish" ELSE "bullish"
    ELSE "neutral"

\* a signal whose strength is not capped at 50
EconomicSignalForUncapped(name, change) ==
    IF EconomicDirection(name, change) /= "neutral" /\ RGt(RAbs(change), R(1, 2))
    THEN <<Signal("economic", name, EconomicDirection(name, change),
                  RMul(RAbs(change), N(10)))>>
    ELSE <<>>

\* a signal for every indicator that moved, whatever its reading
EconomicSignalForAny(name, change) ==
    IF RGt(RAbs(change), R(1, 2))
    THEN <<Signal("economic", name, EconomicDirection(name, change),
                  RMin(RMul(RAbs(change), N(10)), N(50)))>>
    ELSE <<>>

\* the signal of the indicator name for the change (in percent) between its
\* two latest readings
EconomicSignalFor(name, change) ==
    IF EconomicDirection(name, change) /= "neutral" /\ RGt(RAbs(change), R(1, 2))
    THEN <<Signal("economic", name, EconomicDirection(name, change),
                  RMin(RMul(RAbs(change), N(10)), N(50)))>>
    ELSE <<>>

\* the signal of one indicator from its readings, latest first
EconomicSignalOf(name, values) ==
    IF Len(values) < 2 THEN <<>>
    ELSE EconomicSignalFor(name, RMul(RDiv(RSub(values[1].value, values[2].value),
                                           values[2].value), N(100)))

\* the signals of the readings, latest first, grouped by name in the order of
\* their latest reading
EconomicSignalsOf(recent) ==
    Flatten([i \in 1..Len(recent) |->
                IF \A j \in 1..(i - 1) : recent[j].indicator /= recent[i].indicator
                THEN EconomicSignalOf(recent[i].indicator,
                                      SelectSeq(recent,
                                                LAMBDA ind : ind.indicator = recent[i].indicator))
                ELSE <<>>])

\* getEconomicSignals: over the readings of the last 30 days
getEconomicSignals(indicators) ==
    EconomicSignalsOf(OrderDesc({ind \in indicators : ind.date >= Today - 30},
                                [ind \in indicators |-> ind.date]))

sourceWeights ==
    [technical |-> R(35, 100), pattern |-> R(25, 100), news |-> R(25, 100),
     economic |-> R(15, 100)]

SignalWeight(signal) == RMul(sourceWeights[signal.source], RDiv(signal.strength, N(100)))

\* the sum of the weights of the signals of the given directions
ScoreOf(allSignals, directions) ==
    RSum([i \in 1..Len(allSignals) |->
            IF allSignals[i].direction \in directions
            THEN SignalWeight(allSignals[i]) ELSE N(0)])

\* the net score without the guard on a zero total weight
NetScoreUnguarded(bullishScore, bearishScore, totalWeight) ==
    RDiv(RSub(bullishScore, bearishScore), totalWeight)

NetScore(bullishScore, bearishScore, totalWeight) ==
    IF RGt(totalWeight, N(0))
    THEN RDiv(RSub(bullishScore, bearishScore), totalWeight)
    ELSE N(0)

\* a prediction whose confidence is not capped at 90
OutcomeUncapped(latestPrice, allSignals, netScore) ==
    [status |-> "ok",
     currentPrice |-> latestPrice.closePrice,
     predictedDirection |->
         IF RLt(RAbs(netScore), R(1, 10)) THEN "sideways"
         ELSE IF RGt(netScore, N(0)) THEN "up" ELSE "down",
     predictedChange |->
         IF RLt(RAbs(netScore), R(1, 10)) THEN N(0) ELSE RMul(netScore, N(5)),
     confidence |->
         IF RLt(RAbs(netScore), R(1, 10))
         THEN RAdd(N(30), RMul(RSub(N(1), RMul(RAbs(netScore), N(10))), N(20)))
         ELSE RAdd(N(50), RMul(RAbs(netScore), N(50))),
     signals |-> allSignals]

\* the prediction for a net score
Outcome(latestPrice, allSignals, netScore) ==
    [status |-> "ok",
     currentPrice |-> latestPrice.closePrice,
     predictedDirection |->
         IF RLt(RAbs(netScore), R(1, 10)) THEN "sideways"
         ELSE IF RGt(netScore, N(0)) THEN "up" ELSE "down",
     predictedChange |->
         IF RLt(RAbs(netScore), R(1, 10)) THEN N(0) ELSE RMul(netScore, N(5)),
     confidence |->
         IF RLt(RAbs(netScore), R(1, 10))
         THEN RAdd(N(30), RMul(RSub(N(1), RMul(RAbs(netScore), N(10))), N(20)))
         ELSE RMin(RAdd(N(50), RMul(RAbs(netScore), N(50))), N(90)),
     signals |-> allSignals]

\* the weighted prediction from the signals of all sources
Fusion(latestPrice, allSignals) ==
    Outcome(latestPrice, allSignals,
            NetScore(ScoreOf(allSignals, {"bullish"}), ScoreOf(allSignals, {"bearish"}),
                     ScoreOf(allSignals, {"bullish", "bearish", "neutral"})))

\* the prediction from a non-empty list of price rows, oldest first
PredictionFrom(prices, occurrences, quants, indicators) ==
    Fusion(prices[Len(prices)],
           detectTechnicalPatterns(prices) \o getPatternSignals(occurrences)
             \o getNewsSignals(quants) \o getEconomicSignals(indicators))

\* generatePrediction: the 200 latest prices, oldest first; the signals of the
\* four sources; the weighted direction, change and confidence. With no price
\* row, detectTechnicalPatterns reads latest.sma50 of an undefined latest row,
\* which throws.
generatePrediction(priceRows, occurrences, quants, indicators) ==
    IF priceRows = {} THEN [status |-> "error"]
    ELSE PredictionFrom(LastN(PricesAsc(priceRows), 200), occurrences, quants, indicators)

\* a prediction request
Predict ==
    /\ prediction' = generatePrediction(goldPrices, patternOccurrences,
                                        quantifications, economicIndicators)
    /\ UNCHANGED <<quantVars, patternVars, economicIndicators, brainVars>>

----------------------------------------------------------------------------
(* Swing finder (brain.ts) *)

\* the change relative to the end price
ChangePctOfEnd(from, to) == RMul(RDiv(RSub(to, from), to), N(100))

\* ((to - from) / from) * 100
ChangePct(from, to) == RMul(RDiv(RSub(to, from), from), N(100))

\* Math.abs(changePct) < absThreshold, the reverse of the test of findSwings
BelowThreshold(changePct, absThreshold) == RLt(RAbs(changePct), absThreshold)

\* Math.abs(changePct) >= absThreshold
MeetsThreshold(changePct, absThreshold) == RGe(RAbs(changePct), absThreshold)

\* a filter that lets every swing through
DirectionIgnored(direction, swingDirection) == TRUE

\* !direction || direction === 'both' || direction === swingDirection
\* ("" stands for a direction that is not given)
DirectionWanted(direction, swingDirection) ==
    direction = "" \/ direction = "both" \/ direction = swingDirection

SwingResult(startPrice, endPrice, changePct, durationDays) ==
    [startDate |-> startPrice.date, endDate |-> endPrice.date,
     startPrice |-> startPrice.closePrice, endPrice |-> endPrice.closePrice,
     changePercent |-> changePct,
     changeAbsolute |-> RSub(endPrice.closePrice, startPrice.closePrice),
     durationDays |-> durationDays,
     direction |-> IF RGt(changePct, N(0)) THEN "up" ELSE "down"]

\* the swing from startPrice to endPrice, if it passes the threshold and the
\* direction filter
SwingIfAny(startPrice, endPrice, absThreshold, direction, durationDays) ==
    LET changePct == ChangePct(startPrice.closePrice, endPrice.closePrice)
        swing == SwingResult(startPrice, endPrice, changePct, durationDays)
    IN  IF MeetsThreshold(changePct, absThreshold)
           /\ DirectionWanted(direction, swing.direction)
        THEN <<swing>> ELSE <<>>

\* the first loop of findSwings: the swings between consecutive rows
SingleDaySwings(prices, absThreshold, direction) ==
    Flatten([i \in 1..(Len(prices) - 1) |->
                SwingIfAny(prices[i], prices[i + 1], absThreshold, direction, 1)])

RECURSIVE MultiDaySwingsClosing(_, _, _, _, _, _)
\* a scan that also closes the trend that is open at the last row
MultiDaySwingsClosing(prices, absThreshold, direction, i, trendStart, currentDirection) ==
    IF i > Len(prices)
    THEN (IF Len(prices) > 0 /\ prices[Len(prices)].date - prices[trendStart].date > 1
          THEN SwingIfAny(prices[trendStart], prices[Len(prices)], absThreshold, direction,
                          prices[Len(prices)].date - prices[trendStart].date)
          ELSE <<>>)
    ELSE LET dayDirection == IF RGt(prices[i].closePrice, prices[i - 1].closePrice)
                             THEN "up" ELSE "down"
             durationDays == prices[i - 1].date - prices[trendStart].date
         IN  IF currentDirection = ""
             THEN MultiDaySwingsClosing(prices, absThreshold, direction, i + 1, trendStart,
                                        dayDirection)
             ELSE IF dayDirection /= currentDirection
             THEN (IF durationDays > 1
                   THEN SwingIfAny(prices[trendStart], prices[i - 1], absThreshold,
                                   direction, durationDays)
                   ELSE <<>>)
                  \o MultiDaySwingsClosing(prices, absThreshold, direction, i + 1, i - 1,
                                           dayDirection)
             ELSE MultiDaySwingsClosing(prices, absThreshold, direction, i + 1, trendStart,
                                        currentDirection)

\* the second loop of findSwings from row i on (rows count from 1), with its
\* trendStart and currentDirection ("" for null): a trend is closed at the
\* row before the first day that moves the other way, and is a swing when it
\* lasts more than one day
RECURSIVE MultiDaySwings(_, _, _, _, _, _)
MultiDaySwings(prices, absThreshold, direction, i, trendStart, currentDirection) ==
    IF i > Len(prices) THEN <<>>
    ELSE LET dayDirection == IF RGt(prices[i].closePrice, prices[i - 1].closePrice)
                             THEN "up" ELSE "down"
             durationDays == prices[i - 1].date - prices[trendStart].date
         IN  IF currentDirection = ""
             THEN MultiDaySwings(prices, absThreshold, direction, i + 1, trendStart,
                                 dayDirection)
             ELSE IF dayDirection /= currentDirection
             THEN (IF durationDays > 1
                   THEN SwingIfAny(prices[trendStart], prices[i - 1], absThreshold,
                                   direction, durationDays)
                   ELSE <<>>)
                  \o MultiDaySwings(prices, absThreshold, direction, i + 1, i - 1,
                                    dayDirection)
             ELSE MultiDaySwings(prices, absThreshold, direction, i + 1, trendStart,
                                 currentDirection)

\* sort((a, b) => Math.abs(b.changePercent) - Math.abs(a.changePercent)):
\* descending, stable
InsertBySwing(sorted, x) ==
    LET k == Cardinality({i \in 1..Len(sorted) :
                            RGe(RAbs(sorted[i].changePercent), RAbs(x.changePercent))})
    IN  SubSeq(sorted, 1, k) \o <<x>> \o SubSeq(sorted, k + 1, Len(sorted))

RECURSIVE SortBySwing(_)
SortBySwing(ss) ==
    IF ss = <<>> THEN <<>>
    ELSE InsertBySwing(SortBySwing(SubSeq(ss, 1, Len(ss) - 1)), ss[Len(ss)])

\* findSwings(minSwingPercent, startDate, endDate, direction); 0 stands for a
\* date bound that is not given
findSwings(priceRows, minSwingPercent, startDate, endDate, direction) ==
    LET prices == PricesAsc({p \in priceRows :
                               /\ startDate = 0 \/ startDate <= p.date
                               /\ endDate = 0 \/ p.date <= endDate})
        absThreshold == RAbs(minSwingPercent)
    IN  SortBySwing(SingleDaySwings(prices, absThreshold, direction)
                    \o MultiDaySwings(prices, absThreshold, direction, 2, 1, ""))

\* a findSwings request
FindSwings(minSwingPercent, startDate, endDate, direction) ==
    /\ swings' = [status |-> "ok", minSwingPercent |-> minSwingPercent,
                  startDate |-> startDate, endDate |-> endDate, direction |-> direction,
                  result |-> findSwings(goldPrices, minSwingPercent, startDate, endDate,
                                        direction)]
    /\ UNCHANGED <<quantVars, patternVars, predictVars, calc, csv, train>>

----------------------------------------------------------------------------
(* Derived metrics (brain.ts, calculateDerivedMetrics) *)

\* (prices[j].closePrice - prices[j - 1].closePrice) / prices[j - 1].closePrice,
\* rows counted from 1
ReturnAt(prices, j) ==
    RDiv(RSub(prices[j].closePrice, prices[j - 1].closePrice), prices[j - 1].closePrice)

\* the returns of the n rows up to row k that have a row before them
WindowReturns(prices, k, n) ==
    [m \in 1..(k - Max2(k - n + 1, 2) + 1) |-> ReturnAt(prices, Max2(k - n + 1, 2) + m - 1)]

\* Math.pow(b - mean, 2) for each return b
SquaredDeviations(returns, mean) ==
    [m \in 1..Len(returns) |-> RMul(RSub(returns[m], mean), RSub(returns[m], mean))]

\* Math.sqrt of any number
MathSqrt(x) ==
    IF IsNaN(x) \/ RLt(x, N(0)) THEN NaN
    ELSE IF x = PosInf THEN PosInf
    ELSE Sqrt(x)

\* Math.sqrt(variance) * 100 of the returns around their mean
VolatilityAround(returns, mean) ==
    RMul(MathSqrt(RDiv(RSum(SquaredDeviations(returns, mean)), N(Len(returns)))), N(100))

VolatilityOf(returns) ==
    IF Len(returns) = 0 THEN Null
    ELSE VolatilityAround(returns, RDiv(RSum(returns), N(Len(returns))))

\* volatility7d (n = 7) and volatility30d (n = 30) of row k
Volatility(prices, k, n) ==
    IF k - 1 >= n THEN VolatilityOf(WindowReturns(prices, k, n)) ELSE Null

\* sma20, sma50 and sma200 of row k
Sma(prices, k, n) ==
    IF k - 1 >= n - 1
    THEN RDiv(RSumRange([m \in 1..Len(prices) |-> prices[m].closePrice], k - n + 1, k), N(n))
    ELSE Null

\* a daily change that adds to the one stored before
DailyChangeAdded(prices, k) ==
    IF k > 1
    THEN RAdd(RSub(prices[k].closePrice, prices[k - 1].closePrice),
              IF IsNull(prices[k].dailyChange) THEN N(0) ELSE prices[k].dailyChange)
    ELSE Null

\* dailyChange of row k
DailyChange(prices, k) ==
    IF k > 1 THEN RSub(prices[k].closePrice, prices[k - 1].closePrice) ELSE Null

\* dailyChangePct of row k
DailyChangePct(prices, k) ==
    IF k > 1 /\ prices[k - 1].closePrice /= N(0)
    THEN RMul(RDiv(RSub(prices[k].closePrice, prices[k - 1].closePrice),
                   prices[k - 1].closePrice), N(100))
    ELSE Null

\* the data of the update of row k
DerivedMetrics(prices, k) ==
    [dailyChange |-> DailyChange(prices, k),
     dailyChangePct |-> DailyChangePct(prices, k),
     volatility7d |-> Volatility(prices, k, 7),
     volatility30d |-> Volatility(prices, k, 30),
     sma20 |-> Sma(prices, k, 20),
     sma50 |-> Sma(prices, k, 50),
     sma200 |-> Sma(prices, k, 200)]

\* findMany({orderBy: {date: 'asc'}}): the row at place k has k - 1 rows before it
OrderedByDate(S) ==
    [k \in 1..Cardinality(S) |->
        CHOOSE x \in S : Cardinality({y \in S : y.date < x.date}) = k - 1]

\* no call has run yet; runs counts the calls that have returned
CalcIdle == [pc |-> "idle", prices |-> <<>>, i |-> 0, updated |-> 0, runs |-> 0]

\* the number of calls of calculateDerivedMetrics in one behaviour
MaxRuns == 2

\* calculateDerivedMetrics: findMany, ordered by date
MetricsStart ==
    /\ calc.pc /= "loop"
    /\ calc.runs < MaxRuns
    /\ calc' = [calc EXCEPT !.pc = "loop", !.prices = OrderedByDate(goldPrices),
                            !.i = 1, !.updated = 0]
    /\ UNCHANGED <<quantVars, patternVars, predictVars, swings, csv, train>>

\* a loop that writes the metrics of all rows in one step
MetricsUpdateAll ==
    /\ calc.pc = "loop"
    /\ calc.i <= Len(calc.prices)
    /\ goldPrices' = {PrismaUpdate(calc.prices[k], DerivedMetrics(calc.prices, k)) :
                        k \in 1..Len(calc.prices)}
    /\ calc' = [calc EXCEPT !.i = Len(calc.prices) + 1, !.updated = Len(calc.prices)]
    /\ UNCHANGED <<newsArticles, quantifications, qrun, post, lastCall, impact>>
    /\ UNCHANGED <<patternVars, predictVars, swings, csv, train>>

\* one pass of the loop: the metrics of row i from the rows read at the start,
\* then the update of that row
MetricsUpdate ==
    /\ calc.pc = "loop"
    /\ calc.i <= Len(calc.prices)
    /\ goldPrices' = {IF p.id = calc.prices[calc.i].id
                      THEN PrismaUpdate(p, DerivedMetrics(calc.prices, calc.i))
                      ELSE p : p \in goldPrices}
    /\ calc' = [calc EXCEPT !.i = @ + 1, !.updated = @ + 1]
    /\ UNCHANGED <<newsArticles, quantifications, qrun, post, lastCall, impact>>
    /\ UNCHANGED <<patternVars, predictVars, swings, csv, train>>

\* return updated
MetricsReturn ==
    /\ calc.pc = "loop"
    /\ calc.i > Len(calc.prices)
    /\ calc' = [calc EXCEPT !.pc = "done", !.runs = @ + 1]
    /\ UNCHANGED <<quantVars, patternVars, predictVars, swings, csv, train>>

----------------------------------------------------------------------------
(* Pattern trainer (mlTrainer.ts).  The feature layer starts from random     *)
(* weights and only feeds loss and accuracy, which the results here leave    *)
(* out; the per-pattern table does not depend on it.                         *)

\* Math.max(...xs) and Math.min(...xs) of closes; -Infinity and Infinity for none
MathMax(S) == IF S = {} THEN NegInf ELSE SetMax(S)
MathMin(S) == IF S = {} THEN PosInf ELSE SetMin(S)

\* the closes of window.slice(-10) and of window.slice(0, -10), where window is
\* prices.slice(index - windowSize, index + 1); index counts rows from 0
RecentCloses(prices, index, windowSize) ==
    {prices[j + 1].closePrice : j \in Max2(index - windowSize, index - 9)..index}
PreviousCloses(prices, index, windowSize) ==
    {prices[j + 1].closePrice : j \in (index - windowSize)..(index - 10)}

\* the cross patterns of the row at index
TrainerCrosses(curr, prev) ==
    IF Truthy(curr.sma50) /\ Truthy(curr.sma200) /\ Truthy(prev.sma50) /\ Truthy(prev.sma200)
    THEN (IF RLt(prev.sma50, prev.sma200) /\ RGt(curr.sma50, curr.sma200)
          THEN <<"golden_cross">> ELSE <<>>)
         \o (IF RGt(prev.sma50, prev.sma200) /\ RLt(curr.sma50, curr.sma200)
             THEN <<"death_cross">> ELSE <<>>)
    ELSE <<>>

\* volatility7d more than 1.5 times that of seven rows before
TrainerSpike(prices, index) ==
    IF /\ Truthy(prices[index + 1].volatility7d)
       /\ index - 7 >= 0
       /\ Truthy(prices[index - 6].volatility7d)
       /\ RGt(prices[index + 1].volatility7d, RMul(prices[index - 6].volatility7d, R(3, 2)))
    THEN <<"high_volatility_spike">> ELSE <<>>

\* breakouts, support bounce and resistance rejection against the older closes
TrainerLevels(curr, recentHigh, recentLow, previousHigh, previousLow) ==
    (IF RGt(recentHigh, RMul(previousHigh, R(102, 100))) THEN <<"breakout_up">> ELSE <<>>)
    \o (IF RLt(recentLow, RMul(previousLow, R(98, 100))) THEN <<"breakout_down">> ELSE <<>>)
    \o (IF /\ RLt(curr.closePrice, RMul(previousLow, R(101, 100)))
           /\ RGt(IF Truthy(curr.dailyChangePct) THEN curr.dailyChangePct ELSE N(0), R(1, 2))
        THEN <<"support_bounce">> ELSE <<>>)
    \o (IF /\ RGt(curr.closePrice, RMul(previousHigh, R(99, 100)))
           /\ RLt(IF Truthy(curr.dailyChangePct) THEN curr.dailyChangePct ELSE N(0), R(-1, 2))
        THEN <<"resistance_rejection">> ELSE <<>>)

\* detectPatterns(prices, index, windowSize) of the trainer
TrainerPatterns(prices, index, windowSize) ==
    IF index < windowSize THEN <<>>
    ELSE TrainerCrosses(prices[index + 1], prices[index])
         \o TrainerSpike(prices, index)
         \o TrainerLevels(prices[index + 1],
                          MathMax(RecentCloses(prices, index, windowSize)),
                          MathMin(RecentCloses(prices, index, windowSize)),
                          MathMax(PreviousCloses(prices, index, windowSize)),
                          MathMin(PreviousCloses(prices, index, windowSize)))

patternNames ==
    <<"golden_cross", "death_cross", "breakout_up", "breakout_down",
      "support_bounce", "resistance_rejection", "high_volatility_spike",
      "momentum_positive", "momentum_negative", "volatility_squeeze">>

\* actualDirection of the row at index: 1 when the close predictionHorizon rows
\* later is higher, -1 otherwise
ActualDirection(prices, index, predictionHorizon) ==
    IF RGt(RDiv(RSub(prices[index + predictionHorizon + 1].closePrice,
                     prices[index + 1].closePrice),
                prices[index + 1].closePrice), N(0))
    THEN 1 ELSE -1

\* patternCorrect: a bullish pattern before a rise, any other before no rise
PatternCorrect(pattern, actualDirection) ==
    IF pattern \in {"golden_cross", "breakout_up", "support_bounce"}
    THEN actualDirection > 0 ELSE actualDirection < 0

\* the indexes of the training loop at which the pattern is detected
HitsOf(pattern, prices, config) ==
    {i \in config.windowSize..(Len(prices) - config.predictionHorizon - 1) :
        \E n \in 1..Len(TrainerPatterns(prices, i, config.windowSize)) :
            TrainerPatterns(prices, i, config.windowSize)[n] = pattern}

\* those at which it agrees with the actual direction
CorrectHitsOf(pattern, prices, config) ==
    {i \in HitsOf(pattern, prices, config) :
        PatternCorrect(pattern, ActualDirection(prices, i, config.predictionHorizon))}

\* the counters of one pattern after a further pass over the rows: total and
\* correct count the hits, weight moves by learningRate * 0.1 per hit
CountedFrom(pw, hits, correct, learningRate) ==
    [weight |-> RAdd(pw.weight,
                     RMul(RMul(learningRate, R(1, 10)), N(2 * correct - hits))),
     correct |-> pw.correct + correct,
     total |-> pw.total + hits]

\* counters that start every epoch from zero
EpochWeightsReset(weights, prices, config) ==
    [pattern \in DOMAIN weights |->
        CountedFrom([weight |-> N(0), correct |-> 0, total |-> 0],
                    Cardinality(HitsOf(pattern, prices, config)),
                    Cardinality(CorrectHitsOf(pattern, prices, config)),
                    config.learningRate)]

\* the training loop of one epoch over all rows
EpochWeights(weights, prices, config) ==
    [pattern \in DOMAIN weights |->
        CountedFrom(weights[pattern],
                    Cardinality(HitsOf(pattern, prices, config)),
                    Cardinality(CorrectHitsOf(pattern, prices, config)),
                    config.learningRate)]

\* the pattern table of one epoch's result
EpochPatternWeights(weights) ==
    [n \in 1..Len(patternNames) |->
        [pattern |-> patternNames[n],
         weight |-> weights[patternNames[n]].weight,
         accuracy |-> IF weights[patternNames[n]].total > 0
                      THEN R(weights[patternNames[n]].correct, weights[patternNames[n]].total)
                      ELSE N(0),
         occurrences |-> weights[patternNames[n]].total]]

\* the result pushed at the end of an epoch
EpochResult(epoch, weights) ==
    [epoch |-> epoch + 1, patternWeights |-> EpochPatternWeights(weights)]

\* no call has run yet
TrainIdle == [pc |-> "idle"]

\* trainPatternModel(config): findMany ordered by date, counters at zero
TrainStart(config) ==
    /\ train.pc = "idle"
    /\ train' = [pc |-> "loop", config |-> config, prices |-> OrderedByDate(goldPrices),
                 epoch |-> 0,
                 patternWeights |-> [n \in {patternNames[m] : m \in 1..Len(patternNames)} |->
                                        [weight |-> N(0), correct |-> 0, total |-> 0]],
                 results |-> <<>>]
    /\ UNCHANGED <<quantVars, patternVars, predictVars, swings, calc, csv>>

\* the call after an epoch that left the counters at weights: the epoch's
\* result is pushed
AfterEpoch(call, weights) ==
    [call EXCEPT !.patternWeights = weights,
                 !.results = Append(@, EpochResult(call.epoch, weights)),
                 !.epoch = @ + 1]

\* one epoch: the training loop, then the push of the epoch's result
TrainEpoch ==
    /\ train.pc = "loop"
    /\ train.epoch < train.config.epochs
    /\ train' = AfterEpoch(train, EpochWeights(train.patternWeights, train.prices,
                                                train.config))
    /\ UNCHANGED <<quantVars, patternVars, predictVars, swings, calc, csv>>

\* after the last epoch: the training run is saved with the metrics of the last
\* result, and the results are returned
TrainReturn ==
    /\ train.pc = "loop"
    /\ train.epoch >= train.config.epochs
    /\ train' = [pc |-> "done", config |-> train.config, epoch |-> train.epoch,
                 results |-> train.results,
                 saved |-> [runType |-> "pattern_predictor", status |-> "completed",
                            metrics |-> train.results[Len(train.results)]]]
    /\ UNCHANGED <<quantVars, patternVars, predictVars, swings, calc, csv>>

----------------------------------------------------------------------------
(* The quantification store under concurrent requests *)

\* the seeded database: one price, no article and no quantification yet
\* nothing detected or stored yet, no detection running, nothing predicted
PatternsIdle ==
    /\ patternOccurrences = {}
    /\ detect = [r \in Callers |-> DIdle]
    /\ detected = <<>>
    /\ economicIndicators = {}
    /\ prediction = [status |-> "none"]
    /\ swings = [status |-> "none"]
    /\ calc = CalcIdle
    /\ csv = [status |-> "none"]
    /\ train = TrainIdle

SeedPrices == {PriceRow(2, N(2000), N(2), N(1))}

\* what the news API returns for the search: one article
ApiArticles ==
    {[id |-> 1, text |-> {"war", "crisis"}, publish_date |-> 1, sentiment |-> R(1, 2)]}

\* lists of distinct API articles (fetchNewsForAnalysis removes duplicates)
FetchedLists ==
    {f \in UNION {[1..n -> ApiArticles] : n \in 0..1} :
        \A i, j \in 1..Len(f) : i /= j => f[i] /= f[j]}

PostBodies ==
    [valid : BOOLEAN, priceChangeDate : {2, 4}, priceChangePct : {N(2)}, lookbackDays : {7}]

PeriodStarts == {2}
PeriodEnds == {2, 4}
FeedbackScores == {N(40), Null}
Ratings == {N(8), Null}

\* the ids a feedback request may name: every row's, one of no row, and none
FeedbackIds == {q.id : q \in quantifications} \cup {<<1, 9, 1>>, <<>>}

Init ==
    /\ goldPrices = SeedPrices
    /\ newsArticles = {}
    /\ quantifications = {}
    /\ qrun = QIdle
    /\ post = PostIdle
    /\ lastCall = 0
    /\ impact = [ok |-> FALSE]
    /\ PatternsIdle

Next ==
    \/ \E s \in PeriodStarts, e \in PeriodEnds : QStart(s, e, 3)
    \/ QFindArticles
    \/ QFindArticlesFails
    \/ QCalc({FALSE})
    \/ QUpsert({FALSE})
    \/ \E b \in PostBodies, f \in FetchedLists : PostStart(b, f)
    \/ PostFindPrice
    \/ PostCreatePrice
    \/ PostStoreArticle
    \/ PostUpsertQuant
    \/ \E id \in FeedbackIds, h \in FeedbackScores : SubmitFeedback(id, h)
    \/ \E id \in FeedbackIds, r \in Ratings : RatingPut(id, r)

Spec == Init /\ [][Next]_vars

----------------------------------------------------------------------------
(* calculateImpactScore on one article and one price point *)

ImpactTexts ==
    {{}, {"football"}, {"war"}, {"rate hike"}, {"war", "rate hike"},
     {"war", "crisis", "stimulus", "dovish", "rate cut", "uncertainty"},
     {"hawkish", "recovery", "risk-on", "rate hike", "profit taking", "gold falls"}}
ImpactCategories == {"", "geopolitics", "supply", "sports"}
ImpactPublished == 3
ImpactPriceDates == {0, 2, 3, 4, 6, 20}
ImpactChanges == {Null, N(-3), N(3), N(300)}
ImpactVolatilities == {Null, N(2), N(500)}

InitImpact ==
    /\ \E d \in ImpactPriceDates, c \in ImpactChanges, v \in ImpactVolatilities :
          goldPrices = {PriceRow(d, N(2000), c, v)}
    /\ \E cat \in ImpactCategories, text \in ImpactTexts :
          newsArticles = {ArticleRow(1, ImpactPublished, cat, text, Null)}
    /\ quantifications = {}
    /\ qrun = QIdle
    /\ post = PostIdle
    /\ lastCall = 0
    /\ impact = [ok |-> FALSE]
    /\ PatternsIdle

NextImpact ==
    \E a \in {1, 9}, p \in ImpactPriceDates : ImpactCall(a, p)

SpecImpact == InitImpact /\ [][NextImpact]_vars

\* C6: for any existing article and price point, whatever the sign and size of
\* lagDays, the category, dailyChangePct and volatility7d, calculateImpactScore
\* returns impactScore in [-100, 100] and confidenceScore in [0, 1].
C6_ScoresBounded ==
    impact.ok => /\ InRange(impact.impactScore, -100, 100)
                 /\ InRange(impact.confidenceScore, 0, 1)

C1_FeedbackPreserved ==
    [][\A q \in quantifications : q.humanVerified =>
          \E r \in quantifications' :
              /\ r.id = q.id
              /\ r.newsArticleId = q.newsArticleId /\ r.goldPriceId = q.goldPriceId
              /\ r.humanVerified
              /\ (qrun' /= qrun \/ post' /= post) => r.humanScore = q.humanScore]_vars

\* the analyze POST has recomputed a pair whose record carried human feedback
C1_Witness ==
    \E i \in DOMAIN post.results :
        /\ post.results[i].humanVerified
        /\ ~IsNull(post.results[i].humanRating)

\* C2: in every reachable state there is at most one Quantification per
\* (newsArticleId, goldPriceId); a repeated computation updates the record.
C2_OnePerPair ==
    \A q1, q2 \in quantifications :
        (q1.newsArticleId = q2.newsArticleId /\ q1.goldPriceId = q2.goldPriceId) => q1 = q2

\* both writers have written the record of one pair: its category was set by
\* quantifyNewsForPeriod (the analyze POST never sets one) and its lagDays by
\* the POST (lookbackDays 7, more than any lag the period quantifier computes)
C2_Witness ==
    \E q \in quantifications :
        /\ q.impactCategory /= "" /\ q.lagDays = 7
        /\ Cardinality(quantifications) = 2


----------------------------------------------------------------------------
(* Price series for the pattern detector: SeriesLen consecutive days around *)
(* a base close of 100, shaped by a few parameters.                         *)

SeriesLen == 31

Shapes == {"flat", "tops", "bottoms", "ramp"}
Amplitudes == {2, 4, 10}
LastMoves == {-12, 0, 4, 12}
LastChanges == {Null, N(0), N(2), N(-2)}
VolatilityShapes == {"none", "equal", "spike"}
SmaShapes == {"none", "golden", "death", "zero"}

\* the close of day k: three extrema (the second one unit nearer the base), or
\* a steady climb; the last day moves by `last`
SeriesClose(shape, amp, last, k) ==
    LET extremum == IF k \in {5, SeriesLen - 2} THEN amp
                    ELSE IF k = 17 THEN amp - 1 ELSE 0
        base == CASE shape = "flat" -> 100
                  [] shape = "tops" -> 100 + extremum
                  [] shape = "bottoms" -> 100 - extremum
                  [] shape = "ramp" -> 100 + k
    IN  IF k = SeriesLen THEN base + last ELSE base

SeriesVolatility(vol, k) ==
    CASE vol = "none" -> Null
      [] vol = "equal" -> N(1)
      [] vol = "spike" -> IF k = SeriesLen THEN N(9) ELSE N(1)

\* <<sma50, sma200>> of day k: set on the last two days only
SeriesSma(sma, k) ==
    IF k < SeriesLen - 1 \/ sma = "none" THEN <<Null, Null>>
    ELSE CASE sma = "golden" -> IF k = SeriesLen THEN <<N(103), N(102)>> ELSE <<N(101), N(102)>>
           [] sma = "death" -> IF k = SeriesLen THEN <<N(101), N(102)>> ELSE <<N(102), N(102)>>
           [] sma = "zero" -> IF k = SeriesLen THEN <<N(103), N(102)>> ELSE <<N(0), N(102)>>

Series(shape, amp, last, change, vol, sma) ==
    {[PriceRow(k, N(SeriesClose(shape, amp, last, k)),
               IF k = SeriesLen THEN change ELSE Null, SeriesVolatility(vol, k))
        EXCEPT !.sma50 = SeriesSma(sma, k)[1], !.sma200 = SeriesSma(sma, k)[2]]
     : k \in 1..SeriesLen}

\* nothing quantified, no request running
QuantIdle ==
    /\ newsArticles = {}
    /\ quantifications = {}
    /\ qrun = QIdle
    /\ post = PostIdle
    /\ lastCall = 0
    /\ impact = [ok |-> FALSE]

----------------------------------------------------------------------------
(* detectPatterns on one series *)

InitDetect ==
    /\ \E shape \in Shapes, amp \in Amplitudes, last \in LastMoves,
          change \in LastChanges, vol \in VolatilityShapes, sma \in SmaShapes :
          goldPrices = Series(shape, amp, last, change, vol, sma)
    /\ QuantIdle
    /\ PatternsIdle

\* the start dates asked for: none, and two that cut the series short
DetectStarts == {0, 2, 3}

NextDetect == \E startDate \in DetectStarts : DetectCall(startDate, 0)

SpecDetect == InitDetect /\ [][NextDetect]_vars

\* C7: every pattern returned by detectPatterns has confidence in [0, 1] and a
\* predictedMove within its type's cap: +5 / -5 for golden / death cross, at
\* most 8 in magnitude with the pattern's sign for breakouts and double
\* tops / bottoms, 0 for volatility spikes; also when the 20-day range or the
\* standard deviation of the volatility is zero.
C7_PatternBounds ==
    LET Cap(patternType) ==
            CASE patternType = "golden_cross" -> <<5, 5>>
              [] patternType = "death_cross" -> <<-5, -5>>
              [] patternType = "breakout_up" -> <<0, 8>>
              [] patternType = "double_bottom" -> <<0, 8>>
              [] patternType = "breakout_down" -> <<-8, 0>>
              [] patternType = "double_top" -> <<-8, 0>>
              [] patternType = "high_volatility_spike" -> <<0, 0>>
    IN  \A i \in 1..Len(detected) :
            /\ detected[i].patternType \in
                 {"golden_cross", "death_cross", "breakout_up", "breakout_down",
                  "double_top", "double_bottom", "high_volatility_spike"}
            /\ InRange(detected[i].confidence, 0, 1)
            /\ InRange(detected[i].predictedMove, Cap(detected[i].patternType)[1],
                       Cap(detected[i].patternType)[2])

\* C23: for every row with a full window of 20 preceding rows, detectPatterns
\* returns a breakout_up dated at that row exactly when its close is above the
\* highest of the 20 preceding closes and its dailyChangePct is above 1.5, and
\* a breakout_down exactly when the close is below the lowest of them and
\* dailyChangePct is below -1.5; nothing else, such as the value of
\* volatility7d, suppresses a breakout.  (A result that is not empty comes from
\* a call over at least 30 rows; the windows looked at are in the range of
\* every call.)
C23_BreakoutExact ==
    detected /= <<>> =>
        \A k \in (lookback + 1)..Cardinality(goldPrices) :
            LET curr == PricesAsc(goldPrices)[k]
                window == {PricesAsc(goldPrices)[j].closePrice : j \in (k - lookback)..(k - 1)}
                Emitted(patternType) ==
                    \E i \in 1..Len(detected) :
                        /\ detected[i].patternType = patternType
                        /\ detected[i].startDate = curr.date
            IN  (\A d \in DetectStarts : PricesAsc(goldPrices)[k - lookback].date >= d) =>
                    /\ Emitted("breakout_up") <=>
                          (/\ RGt(curr.closePrice, SetMax(window))
                           /\ RGt(curr.dailyChangePct, R(3, 2)))
                    /\ Emitted("breakout_down") <=>
                          (/\ RLt(curr.closePrice, SetMin(window))
                           /\ RLt(curr.dailyChangePct, R(-3, 2)))

\* C12: wherever sma50 goes from at most sma200 on one row to above it on the
\* next, both rows having their moving averages set, detectPatterns returns
\* exactly one golden_cross dated at the later row, with confidence 0.85 and
\* predictedMove +5, and no death_cross at that date; and the mirror for
\* death_cross with predictedMove -5.  (A result that is not empty comes from a
\* call over at least 30 rows; the rows looked at are in the range of every
\* call.)
C12_CrossEmitted ==
    detected /= <<>> =>
        \A k \in 2..Cardinality(goldPrices) :
            LET prev == PricesAsc(goldPrices)[k - 1]
                curr == PricesAsc(goldPrices)[k]
                At(patternType) == {i \in 1..Len(detected) :
                                      /\ detected[i].patternType = patternType
                                      /\ detected[i].startDate = curr.date}
                OneAt(patternType, other, move) ==
                    /\ Cardinality(At(patternType)) = 1
                    /\ \A i \in At(patternType) :
                          /\ detected[i].confidence = R(85, 100)
                          /\ detected[i].predictedMove = N(move)
                    /\ At(other) = {}
            IN  (/\ \A d \in DetectStarts : prev.date >= d
                 /\ ~IsNull(prev.sma50) /\ ~IsNull(prev.sma200)
                 /\ ~IsNull(curr.sma50) /\ ~IsNull(curr.sma200)) =>
                    /\ (RLe(prev.sma50, prev.sma200) /\ RGt(curr.sma50, curr.sma200))
                          => OneAt("golden_cross", "death_cross", 5)
                    /\ (RGe(prev.sma50, prev.sma200) /\ RLt(curr.sma50, curr.sma200))
                          => OneAt("death_cross", "golden_cross", -5)

\* a breakout out of a window whose 20 closes are all equal (range zero) was
\* returned together with a volatility spike
C7_Witness ==
    /\ \E i \in 1..Len(detected) : detected[i].patternType = "breakout_up"
    /\ \E i \in 1..Len(detected) : detected[i].patternType = "high_volatility_spike"
    /\ \A p, q \in goldPrices :
          (p.date < SeriesLen /\ q.date < SeriesLen) => p.closePrice = q.closePrice


----------------------------------------------------------------------------
(* detectAndStorePatterns: sequential and concurrent calls *)

\* the series the stored patterns are detected in: three double tops (two of
\* them with the same first peak) and a golden cross; a breakout out of a flat
\* window with a volatility spike and a death cross; double bottoms with a
\* breakout below them; shallow double tops
StoredSeries ==
    {Series("tops", 10, 0, Null, "equal", "golden"),
     Series("flat", 2, 12, N(2), "spike", "death"),
     Series("bottoms", 10, -12, N(-2), "spike", "none"),
     Series("tops", 4, 0, Null, "none", "death")}

InitStore ==
    /\ goldPrices \in StoredSeries
    /\ QuantIdle
    /\ PatternsIdle

\* the ranges asked for: everything, without the first day, without the last
\* day, and one too short for any detection
DetectRanges == {<<0, 0>>, <<2, 0>>, <<0, SeriesLen - 1>>, <<2, SeriesLen - 1>>}

\* one caller, one call after the other
NextStore ==
    \/ \E range \in DetectRanges : DStart(1, range[1], range[2], {FALSE})
    \/ DFind(1, {FALSE})
    \/ DCreate(1, {FALSE})

SpecStore == InitStore /\ [][NextStore]_vars

InitConcurrent ==
    /\ goldPrices = Series("tops", 10, 0, Null, "equal", "golden")
    /\ QuantIdle
    /\ PatternsIdle

\* two callers at the same time, over the whole series or all but its last day
NextConcurrent ==
    \/ \E r \in Callers, endDate \in {0, SeriesLen - 1} : DStart(r, 0, endDate, {FALSE})
    \/ \E r \in Callers : DFind(r, {FALSE})
    \/ \E r \in Callers : DCreate(r, {FALSE})

SpecConcurrent == InitConcurrent /\ [][NextConcurrent]_vars

\* C3: detectAndStorePatterns is idempotent when re-run sequentially over the
\* same or an overlapping range of an unchanged series: no two stored
\* occurrences share (pattern, startDate); stored occurrences are never changed
\* or removed; the step that handles an already-stored occurrence leaves the
\* store and the stored count alone, and the stored count grows only when a
\* row with a new (pattern, startDate) is created.
C3_Idempotent ==
    /\ [](\A o1, o2 \in patternOccurrences :
            (o1.patternId = o2.patternId /\ o1.startDate = o2.startDate) => o1.id = o2.id)
    /\ [][/\ patternOccurrences \subseteq patternOccurrences'
          /\ \A r \in Callers :
               LET run == detect[r]
                   d == run.patterns[run.idx]
                   isStored == \E o \in patternOccurrences :
                                  o.patternId = d.patternType /\ o.startDate = d.startDate
               IN  /\ (run.pc = "find" /\ isStored /\ detect'[r] /= run) =>
                           /\ detect'[r].stored = run.stored
                           /\ patternOccurrences' = patternOccurrences
                   /\ (run.pc \in {"find", "create"} /\ detect'[r].stored /= run.stored) =>
                           /\ detect'[r].stored = run.stored + 1
                           /\ ~isStored
                           /\ Cardinality(patternOccurrences') =
                                Cardinality(patternOccurrences) + 1]_vars

\* a re-run has finished: it detected patterns, stored none of them, and all of
\* them are in the store
C3_Witness ==
    /\ detect[1].pc = "done"
    /\ detect[1].result.detected > 0 /\ detect[1].result.stored = 0
    /\ \A i \in 1..Len(detect[1].patterns) :
          \E o \in patternOccurrences :
              /\ o.patternId = detect[1].patterns[i].patternType
              /\ o.startDate = detect[1].patterns[i].startDate

\* C15: over a range that holds fewer than 30 price rows detectPatterns returns
\* the empty list without an error, and detectAndStorePatterns ends with
\* detected 0 and stored 0 and creates no pattern occurrence.
C15_ShortRangeEmpty ==
    /\ [](\A r \in Callers :
            LET rows == {p \in goldPrices :
                           /\ detect[r].startDate = 0 \/ detect[r].startDate <= p.date
                           /\ detect[r].endDate = 0 \/ p.date <= detect[r].endDate}
            IN  (detect[r].pc /= "idle" /\ Cardinality(rows) < 30) =>
                    /\ detect[r].pc = "done"
                    /\ detect[r].patterns = <<>>
                    /\ detect[r].result = [detected |-> 0, stored |-> 0]
                    /\ detectPatterns(detect[r].startDate, detect[r].endDate) = <<>>)
    /\ [][\A r \in Callers :
            LET rows == {p \in goldPrices :
                           /\ detect'[r].startDate = 0 \/ detect'[r].startDate <= p.date
                           /\ detect'[r].endDate = 0 \/ p.date <= detect'[r].endDate}
            IN  (detect'[r] /= detect[r] /\ Cardinality(rows) < 30) =>
                    patternOccurrences' = patternOccurrences]_vars

\* a call over 29 of the rows has ended after a call over all rows had stored
\* occurrences
C15_Witness ==
    /\ detect[1].pc = "done"
    /\ detect[1].startDate = 2 /\ detect[1].endDate = SeriesLen - 1
    /\ Cardinality({p \in goldPrices : 2 <= p.date /\ p.date <= SeriesLen - 1}) = 29
    /\ detect[1].result = [detected |-> 0, stored |-> 0]
    /\ patternOccurrences /= {}

\* C4: when two detectAndStorePatterns calls run concurrently over overlapping
\* ranges, with their find and create steps interleaved in any order, no
\* (pattern, startDate) key is ever stored twice.
C4_NoKeyStoredTwice ==
    \A o1, o2 \in patternOccurrences :
        (o1.patternId = o2.patternId /\ o1.startDate = o2.startDate) => o1 = o2


----------------------------------------------------------------------------
(* The two batch operations with a database that may fail any call *)

BatchArticles ==
    {ArticleRow(1, 1, "geopolitics", {"war"}, Null),
     ArticleRow(2, 2, "", {"rate hike"}, Null)}

InitBatch ==
    /\ goldPrices = Series("flat", 2, 12, N(2), "spike", "none")
    /\ newsArticles = BatchArticles
    /\ quantifications = {}
    /\ qrun = QIdle
    /\ post = PostIdle
    /\ lastCall = 0
    /\ impact = [ok |-> FALSE]
    /\ PatternsIdle

NextBatch ==
    \/ QStart(1, 2, 3)
    \/ QFindArticles
    \/ QFindArticlesFails
    \/ QCalc(BOOLEAN)
    \/ QUpsert(BOOLEAN)
    \/ DStart(1, 0, 0, BOOLEAN)
    \/ DFind(1, BOOLEAN)
    \/ DCreate(1, BOOLEAN)

SpecBatch == InitBatch /\ [][NextBatch]_vars

----------------------------------------------------------------------------
(* Prediction requests over a database of prices, occurrences, *)
(* quantifications and indicator readings                                  *)

\* <<sma50, sma200>> of the latest row: not set, equal, above, below
SmaPairs == {<<Null, Null>>, <<N(5), N(5)>>, <<N(6), N(5)>>, <<N(5), N(6)>>}

PredictClose(shape, k) ==
    CASE shape = "alternating" -> 100 + (k % 2)
      [] shape = "falling" -> 130 - k
      [] shape = "rising" -> 100 + k
      [] shape = "flat" -> 100
      [] shape = "jump" -> IF k < 26 THEN 100 ELSE 110
      [] shape = "drop" -> IF k < 26 THEN 100 ELSE 90

\* len consecutive days up to Today, the moving averages set on the last one
PredictSeries(shape, len, sma) ==
    {[PriceRow(Today - len + k, N(PredictClose(shape, k)), Null, Null)
        EXCEPT !.sma50 = IF k = len THEN sma[1] ELSE Null,
               !.sma200 = IF k = len THEN sma[2] ELSE Null]
     : k \in 1..len}

\* no price at all, a short series, and a long series of every shape (the
\* flat one and the ones that move on their last day long enough for the MACD)
PredictPrices ==
    {{}} \cup {PredictSeries("alternating", 5, sma) : sma \in SmaPairs}
         \cup {PredictSeries("alternating", 22, sma) : sma \in SmaPairs}
         \cup {PredictSeries("rising", 22, <<N(6), N(5)>>),
               PredictSeries("falling", 22, <<N(5), N(6)>>),
               PredictSeries("flat", 26, <<Null, Null>>),
               PredictSeries("jump", 26, <<Null, Null>>),
               PredictSeries("drop", 26, <<Null, Null>>)}

\* stored occurrences: three of the last 30 days, one older
PredictOccurrences ==
    LET Row(patternType, startDate, confidence, predictedMove) ==
            CHOOSE o \in CreateOccurrence({}, [patternType |-> patternType,
                             startDate |-> startDate, endDate |-> startDate,
                             startPriceId |-> startDate, confidence |-> confidence,
                             predictedMove |-> predictedMove]) : TRUE
    IN  {Row("golden_cross", Today - 5, R(85, 100), N(5)),
         Row("double_top", Today - 3, R(7, 10), N(-4)),
         Row("high_volatility_spike", Today - 2, R(6, 10), N(0)),
         Row("death_cross", Today - 40, R(85, 100), N(-5))}

\* stored quantifications: rated up, rated down and unrated ones of the last
\* 7 days, and an older one
PredictQuantifications ==
    LET Row(articleId, humanScore, createdAt) ==
            [NewQuantification(1, [newsArticleId |-> articleId, goldPriceId |-> Today,
                                   impactScore |-> N(50), confidenceScore |-> R(1, 2),
                                   lagDays |-> 0, reasoning |-> "none"])
               EXCEPT !.humanScore = humanScore, !.humanVerified = ~IsNull(humanScore),
                      !.createdAt = createdAt]
    IN  {Row(1, N(40), Today), Row(2, N(-40), Today - 1), Row(3, Null, Today),
         Row(4, N(-80), Today - 10)}

\* indicator readings, by series: two readings each, but for the last; one
\* series rises from a reading of 0
IndicatorGroups ==
    LET Row(indicator, date, value) == [indicator |-> indicator, date |-> date, value |-> value]
    IN  {{Row("CPIAUCSL", Today - 2, N(300)), Row("CPIAUCSL", Today - 1, N(303))},
         {Row("FEDFUNDS", Today - 3, N(4)), Row("FEDFUNDS", Today - 1, N(5)),
          Row("inflation expectations", Today - 4, N(0)),
          Row("inflation expectations", Today - 2, N(2))},
         {Row("UNRATE", Today - 4, N(4)), Row("UNRATE", Today - 2, N(5)),
          Row("DXY", Today - 1, N(100))}}

InitPredict ==
    /\ goldPrices \in PredictPrices
    /\ newsArticles = {}
    /\ quantifications \in {qs \in SUBSET PredictQuantifications : Cardinality(qs) \in {0, 1, 4}}
    /\ qrun = QIdle
    /\ post = PostIdle
    /\ lastCall = 0
    /\ impact = [ok |-> FALSE]
    /\ patternOccurrences \in {os \in SUBSET PredictOccurrences : Cardinality(os) \in {0, 1, 4}}
    /\ detect = [r \in Callers |-> DIdle]
    /\ detected = <<>>
    /\ economicIndicators \in {UNION groups : groups \in {gs \in SUBSET IndicatorGroups :
                                                            Cardinality(gs) /= 2}}
    /\ prediction = [status |-> "none"]
    /\ swings = [status |-> "none"]
    /\ calc = CalcIdle
    /\ csv = [status |-> "none"]
    /\ train = TrainIdle

NextPredict == Predict

SpecPredict == InitPredict /\ [][NextPredict]_vars

\* C8: when the signal list of a prediction is not empty and all its signals
\* are bullish, the prediction is "up" with a positive change; when all are
\* bearish, it is "down" with a negative change.
C8_Sidedness ==
    (prediction.status = "ok" /\ prediction.signals /= <<>>) =>
        /\ (\A i \in 1..Len(prediction.signals) : prediction.signals[i].direction = "bullish")
              => /\ prediction.predictedDirection = "up"
                 /\ RGt(prediction.predictedChange, N(0))
        /\ (\A i \in 1..Len(prediction.signals) : prediction.signals[i].direction = "bearish")
              => /\ prediction.predictedDirection = "down"
                 /\ RLt(prediction.predictedChange, N(0))

NetScoreOf(signals) ==
    NetScore(ScoreOf(signals, {"bullish"}), ScoreOf(signals, {"bearish"}),
             ScoreOf(signals, {"bullish", "bearish", "neutral"}))

\* C22: the fusion step maps the net score of the signals to the output: for
\* |netScore| < 0.1 sideways, predictedChange 0 and confidence
\* 30 + (1 - |netScore| * 10) * 20, in (30, 50]; otherwise the direction is the
\* sign of netScore, predictedChange = netScore * 5 and confidence =
\* min(50 + |netScore| * 50, 90), in [55, 90]; confidence is always in [0, 100].
C22_FusionMapping ==
    prediction.status = "ok" =>
        /\ InRange(prediction.confidence, 0, 100)
        /\ IF RLt(RAbs(NetScoreOf(prediction.signals)), R(1, 10))
           THEN /\ prediction.predictedDirection = "sideways"
                /\ prediction.predictedChange = N(0)
                /\ prediction.confidence =
                     RAdd(N(30), RMul(RSub(N(1), RMul(RAbs(NetScoreOf(prediction.signals)),
                                                      N(10))), N(20)))
                /\ RGt(prediction.confidence, N(30)) /\ RLe(prediction.confidence, N(50))
           ELSE /\ prediction.predictedDirection =
                     (IF RGt(NetScoreOf(prediction.signals), N(0)) THEN "up" ELSE "down")
                /\ prediction.predictedChange = RMul(NetScoreOf(prediction.signals), N(5))
                /\ prediction.confidence =
                     RMin(RAdd(N(50), RMul(RAbs(NetScoreOf(prediction.signals)), N(50))),
                          N(90))
                /\ InRange(prediction.confidence, 55, 90)

\* signals of both directions that nearly cancel: sideways with a confidence
\* strictly between 30 and 50
C22_Witness ==
    /\ prediction.status = "ok"
    /\ prediction.predictedDirection = "sideways"
    /\ \E i, j \in 1..Len(prediction.signals) :
          prediction.signals[i].direction = "bullish"
          /\ prediction.signals[j].direction = "bearish"
    /\ RLt(prediction.confidence, N(50))

\* C25: every signal of the four generators (technical, pattern, news,
\* economic) has strength in [0, 100], also the signal of an indicator whose
\* previous reading is 0.
C25_StrengthInRange ==
    prediction.status = "ok" =>
        \A i \in 1..Len(prediction.signals) :
            InRange(prediction.signals[i].strength, 0, 100)

\* signals of all four sources, one of them from the indicator that rose from 0
C25_Witness ==
    /\ prediction.status = "ok"
    /\ \A source \in {"technical", "pattern", "news", "economic"} :
          \E i \in 1..Len(prediction.signals) : prediction.signals[i].source = source
    /\ \E i \in 1..Len(prediction.signals) :
          /\ prediction.signals[i].name = "inflation expectations"
          /\ prediction.signals[i].strength = N(50)

\* C26: in calculateMACD the signal line equals the MACD value and the
\* histogram is 0 for every price series, so detectTechnicalPatterns never
\* emits a 'MACD Bullish' or 'MACD Bearish' signal.
C26_HistogramZero ==
    prediction.status = "ok" =>
        /\ calculateMACD(ClosePrices(LastN(PricesAsc(goldPrices), 200))).signal =
              calculateMACD(ClosePrices(LastN(PricesAsc(goldPrices), 200))).macd
        /\ calculateMACD(ClosePrices(LastN(PricesAsc(goldPrices), 200))).histogram = N(0)
        /\ \A i \in 1..Len(prediction.signals) :
              prediction.signals[i].name \notin {"MACD Bullish", "MACD Bearish"}

\* a prediction over 26 days whose MACD value is positive
C26_Witness ==
    /\ prediction.status = "ok"
    /\ Cardinality(goldPrices) = 26
    /\ RGt(calculateMACD(ClosePrices(PricesAsc(goldPrices))).macd, N(0))

\* C27: no signal that reaches the fusion step is neutral, so the bullish and
\* the bearish score add up to the total weight, netScore lies in [-1, 1] and
\* predictedChange in [-5, 5].
C27_NoNeutralSignal ==
    prediction.status = "ok" =>
        /\ \A i \in 1..Len(prediction.signals) :
              prediction.signals[i].direction \in {"bullish", "bearish"}
        /\ RAdd(ScoreOf(prediction.signals, {"bullish"}),
                ScoreOf(prediction.signals, {"bearish"})) =
              ScoreOf(prediction.signals, {"bullish", "bearish", "neutral"})
        /\ InRange(NetScoreOf(prediction.signals), -1, 1)
        /\ InRange(prediction.predictedChange, -5, 5)

\* an indicator that the predictor reads as neutral moved by 25% next to
\* indicators that gave signals
C27_Witness ==
    /\ prediction.status = "ok"
    /\ \E x, y \in economicIndicators :
          /\ x.indicator = "UNRATE" /\ y.indicator = "UNRATE"
          /\ x.value = N(4) /\ y.value = N(5)
    /\ \E i \in 1..Len(prediction.signals) : prediction.signals[i].source = "economic"
    /\ prediction.predictedDirection /= "sideways"

\* C28: a pattern signal is bullish when the pattern's typicalImpact is > 0 and
\* bearish otherwise, so an occurrence of a pattern with typicalImpact 0
\* (high_volatility_spike) gives a bearish signal.
C28_PatternDirection ==
    prediction.status = "ok" =>
        /\ \A i \in 1..Len(prediction.signals) :
              prediction.signals[i].source = "pattern" =>
                  prediction.signals[i].direction =
                      (IF RGt(typicalImpact[prediction.signals[i].name], N(0))
                       THEN "bullish" ELSE "bearish")
        /\ \A o \in patternOccurrences :
              o.startDate >= Today - 30 =>
                  \E i \in 1..Len(prediction.signals) :
                      /\ prediction.signals[i].source = "pattern"
                      /\ prediction.signals[i].name = o.patternId

\* a stored volatility spike of two days ago is the only signal and the
\* prediction is down
C28_Witness ==
    /\ prediction.status = "ok"
    /\ Len(prediction.signals) = 1
    /\ prediction.signals[1].name = "high_volatility_spike"
    /\ prediction.signals[1].direction = "bearish"
    /\ prediction.predictedDirection = "down"

----------------------------------------------------------------------------
(* findSwings requests over short price series *)

\* the days of the rows: consecutive, but for a gap before the last two
SwingDays == <<1, 2, 3, 6, 7>>
SwingCloses == {0, 100, 102, 105}

\* the series that start at a close of 100 and end at 100 or 105
SwingSeries ==
    {{PriceRow(SwingDays[k], N(closes[k]), Null, Null) : k \in 1..Len(SwingDays)} :
        closes \in {c \in [1..Len(SwingDays) -> SwingCloses] :
                       c[1] = 100 /\ c[Len(SwingDays)] \in {100, 105}}}

SwingThresholds == {N(0), R(5, 2), N(5), N(-3)}
\* <<startDate, endDate>>
SwingBounds == {<<0, 0>>, <<2, 0>>, <<0, 6>>}
SwingDirections == {"", "up", "down", "both"}

InitSwings ==
    /\ goldPrices \in SwingSeries
    /\ QuantIdle
    /\ PatternsIdle

NextSwings ==
    \E minSwingPercent \in SwingThresholds, bounds \in SwingBounds,
       direction \in SwingDirections :
        FindSwings(minSwingPercent, bounds[1], bounds[2], direction)

SpecSwings == InitSwings /\ [][NextSwings]_vars

\* C10: every swing that findSwings returns for a threshold T2 is also among
\* the swings it returns for any threshold T1 with 0 <= T1 < T2, on the same
\* prices, date bounds and direction filter.
C10_SwingsShrink ==
    swings.status = "ok" =>
        \A T1 \in SwingThresholds :
            (RLe(N(0), T1) /\ RLt(T1, swings.minSwingPercent)) =>
                LET found1 == findSwings(goldPrices, T1, swings.startDate,
                                         swings.endDate, swings.direction)
                IN  \A i \in 1..Len(swings.result) :
                        \E j \in 1..Len(found1) :
                            /\ found1[j].startDate = swings.result[i].startDate
                            /\ found1[j].endDate = swings.result[i].endDate
                            /\ found1[j].changePercent = swings.result[i].changePercent

\* a request with threshold 5 returned a one-day and a several-day swing, and
\* the same request with threshold 0 returns more swings
C10_Witness ==
    /\ swings.status = "ok" /\ swings.minSwingPercent = N(5)
    /\ \E i, j \in 1..Len(swings.result) :
          swings.result[i].durationDays = 1 /\ swings.result[j].durationDays > 1
    /\ Len(findSwings(goldPrices, N(0), swings.startDate, swings.endDate,
                      swings.direction)) > Len(swings.result)


\* C21: every swing findSwings returns has |changePercent| >= |minSwingPercent|,
\* durationDays >= 1, direction 'up' exactly when changePercent > 0, and the
\* direction asked for when that is 'up' or 'down'; a swing of the multi-day
\* scan (the only ones whose durationDays is not 1) lasts more than one day,
\* counted in calendar days from its start date to its end date.
C21_SwingsSound ==
    swings.status = "ok" =>
        \A i \in 1..Len(swings.result) :
            LET s == swings.result[i]
            IN  /\ RGe(RAbs(s.changePercent), RAbs(swings.minSwingPercent))
                /\ s.durationDays >= 1
                /\ s.direction \in {"up", "down"}
                /\ s.direction = "up" <=> RGt(s.changePercent, N(0))
                /\ swings.direction \in {"up", "down"} => s.direction = swings.direction
                /\ s.durationDays /= 1 =>
                      /\ s.durationDays > 1
                      /\ s.durationDays = s.endDate - s.startDate

\* a request for falling swings only returned a one-day swing and a swing over
\* several days that spans the gap in the dates
C21_Witness ==
    /\ swings.status = "ok" /\ swings.direction = "down"
    /\ swings.minSwingPercent = N(-3)
    /\ \E i, j \in 1..Len(swings.result) :
          /\ swings.result[i].durationDays = 1
          /\ swings.result[j].durationDays > 2
          /\ swings.result[j].endDate - swings.result[j].startDate > 2

\* C29: the multi-day scan of findSwings emits a run only at the step where
\* the day-over-day direction flips: every multi-day swing ends at a row that
\* is followed by a day moving the other way, and a run still open at the last
\* row of the range is never emitted, however large its net change.
C29_OpenRunNotEmitted ==
    swings.status = "ok" =>
        LET prices == PricesAsc({p \in goldPrices :
                                   /\ swings.startDate = 0 \/ swings.startDate <= p.date
                                   /\ swings.endDate = 0 \/ p.date <= swings.endDate})
            Up(k) == RGt(prices[k].closePrice, prices[k - 1].closePrice)
        IN  \A i \in 1..Len(swings.result) :
                swings.result[i].durationDays /= 1 =>
                    \E e \in 2..(Len(prices) - 1) :
                        /\ prices[e].date = swings.result[i].endDate
                        /\ Up(e + 1) /= Up(e)

\* the series ends in a two-day rise of 5% that is still open at the last row;
\* the request (threshold 2.5, no date bound, no direction filter) returned
\* the two one-day rises and no multi-day swing
C29_Witness ==
    /\ swings.status = "ok" /\ swings.minSwingPercent = R(5, 2)
    /\ swings.startDate = 0 /\ swings.endDate = 0 /\ swings.direction = ""
    /\ \E p \in goldPrices : p.date = 3 /\ p.closePrice = N(100)
    /\ \E p \in goldPrices : p.date = 6 /\ p.closePrice = N(102)
    /\ \E p \in goldPrices : p.date = 7 /\ p.closePrice = N(105)
    /\ Len(swings.result) >= 1
    /\ \A i \in 1..Len(swings.result) : swings.result[i].durationDays = 1

----------------------------------------------------------------------------
(* findSwings requests over runs of rising, flat and falling days *)

RunCloses == {100, 103, 106}

\* four or five consecutive days, from day 1 on
RunSeries ==
    {{PriceRow(k, N(closes[k]), Null, Null) : k \in 1..Len(closes)} :
        closes \in [1..4 -> RunCloses] \cup [1..5 -> RunCloses]}

RunThresholds == {N(2), N(5)}

InitRuns ==
    /\ goldPrices \in RunSeries
    /\ QuantIdle
    /\ PatternsIdle

NextRuns ==
    \E minSwingPercent \in RunThresholds, direction \in SwingDirections :
        FindSwings(minSwingPercent, 0, 0, direction)

SpecRuns == InitRuns /\ [][NextRuns]_vars

\* the closes 100, 100, 106, 106 on the days 1..4
ScenarioSeries == {PriceRow(k, N(<<100, 100, 106, 106>>[k]), Null, Null) : k \in 1..4}

\* C11: on the closes 100, 100, 106, 106 of four consecutive days and with
\* threshold 5, findSwings returns exactly one swing: the one-day rise of 6%
\* from the second to the third day; no multi-day swing is returned.
C11_Scenario ==
    (/\ swings.status = "ok" /\ goldPrices = ScenarioSeries
     /\ swings.minSwingPercent = N(5) /\ swings.direction \in {"", "both", "up"}) =>
        swings.result = <<[startDate |-> 2, endDate |-> 3, startPrice |-> N(100),
                           endPrice |-> N(106), changePercent |-> N(6),
                           changeAbsolute |-> N(6), durationDays |-> 1,
                           direction |-> "up"]>>

\* the scenario was requested with threshold 5 and no direction filter
C11_Witness ==
    /\ swings.status = "ok" /\ goldPrices = ScenarioSeries
    /\ swings.minSwingPercent = N(5) /\ swings.direction = ""
    /\ Len(swings.result) = 1

\* C20: in the multi-day scan a flat day continues the current run.  A run of
\* rising and flat days that starts and ends with a rise, begins at the first
\* row or after a fall and is ended by a fall, is one upward run: its swing from
\* first to last point is returned when it passes the threshold.
C20_FlatContinues ==
    (swings.status = "ok" /\ swings.direction \in {"", "both", "up"}) =>
        \A a, b \in 1..Cardinality(goldPrices) :
            LET prices == PricesAsc(goldPrices)
                Close(k) == prices[k].closePrice
            IN  (/\ a + 1 < b /\ b < Len(prices)
                 /\ \A k \in a..(b - 1) : RLe(Close(k), Close(k + 1))
                 /\ RLt(Close(a), Close(a + 1)) /\ RLt(Close(b - 1), Close(b))
                 /\ a > 1 => RGt(Close(a - 1), Close(a))
                 /\ RGt(Close(b), Close(b + 1))
                 /\ RGe(RAbs(ChangePct(Close(a), Close(b))), RAbs(swings.minSwingPercent)))
                => \E i \in 1..Len(swings.result) :
                      /\ swings.result[i].startDate = prices[a].date
                      /\ swings.result[i].endDate = prices[b].date
                      /\ swings.result[i].durationDays = prices[b].date - prices[a].date

----------------------------------------------------------------------------
(* calculateDerivedMetrics over imported series *)

\* closes of the short series; 0 is the close of a placeholder price
MetricCloses == {0, 1, 2}

\* eight days with at most one placeholder among them
ShortCloses ==
    {closes \in [1..8 -> MetricCloses] : Cardinality({k \in 1..8 : closes[k] = 0}) <= 1}

\* long enough for volatility30d, sma20, sma50 and sma200: one rise on day 25
LongCloses == {[k \in 1..len |-> IF k < 25 THEN 1 ELSE 2] : len \in {31, 50, 200}}

\* rows as imported (metrics null) or carrying metrics of an earlier state of
\* the table
MetricRow(k, close, stale) ==
    [id |-> k, date |-> k, closePrice |-> N(close),
     dailyChange |-> stale, dailyChangePct |-> stale, volatility7d |-> stale,
     volatility30d |-> stale, sma20 |-> stale, sma50 |-> stale, sma200 |-> stale]

MetricSeries ==
    {{MetricRow(k, closes[k], stale) : k \in 1..Len(closes)} :
        closes \in ShortCloses, stale \in {Null, N(7)}}
    \cup {{MetricRow(k, closes[k], Null) : k \in 1..Len(closes)} : closes \in LongCloses}

InitMetrics ==
    /\ goldPrices \in MetricSeries
    /\ QuantIdle
    /\ PatternsIdle

NextMetrics == MetricsStart \/ MetricsUpdate \/ MetricsReturn

SpecMetrics == InitMetrics /\ [][NextMetrics]_vars

\* C14: calculateDerivedMetrics is idempotent: once one call has returned, a
\* further call over the same rows leaves every stored value as it is.
C14_Idempotent == [][calc.runs >= 1 => goldPrices' = goldPrices]_vars

\* the second call has returned over a series in which it rewrote a non-zero
\* volatility7d over what was stored before the first call
C14_Witness ==
    /\ calc.pc = "done"
    /\ calc.runs = 2
    /\ calc.updated = 8
    /\ \E p \in goldPrices : /\ p.date = 8
                             /\ IsFinite(p.volatility7d)
                             /\ RGt(p.volatility7d, N(0))
                             /\ p.dailyChangePct = N(100)

\* C18: a zero previous close never yields NaN or Infinity: after
\* calculateDerivedMetrics every row after a close of 0 has null dailyChange
\* and null dailyChangePct, and no volatility is NaN or infinite.
C18_ZeroCloseNull ==
    (calc.pc = "done") =>
        \A p \in goldPrices :
            /\ (\E q \in goldPrices : q.date = p.date - 1 /\ q.closePrice = N(0)) =>
                    IsNull(p.dailyChange) /\ IsNull(p.dailyChangePct)
            /\ IsNull(p.volatility7d) \/ IsFinite(p.volatility7d)
            /\ IsNull(p.volatility30d) \/ IsFinite(p.volatility30d)

----------------------------------------------------------------------------
(* calculateDerivedMetrics next to a reader of the derived fields *)

RecomputeLen == 31

\* the closes now stored: a rise from 1 to 2 on day 25, or on day 25 and back
RecomputeCloses ==
    {[k \in 1..RecomputeLen |-> IF k < 25 THEN 1 ELSE 2],
     [k \in 1..RecomputeLen |-> IF k = 25 THEN 2 ELSE 1]}

\* the closes the stored metrics were computed from: none (rows as imported),
\* or closes of 1 on every day
EarlierCloses == {<<>>, [k \in 1..RecomputeLen |-> 1]}

RecomputeRows(closes, earlier) ==
    {IF earlier = <<>> THEN MetricRow(k, closes[k], Null)
     ELSE PrismaUpdate(MetricRow(k, closes[k], Null),
                       DerivedMetrics([j \in 1..RecomputeLen |->
                                          MetricRow(j, earlier[j], Null)], k))
     : k \in 1..RecomputeLen}

InitRecompute ==
    /\ \E closes \in RecomputeCloses, earlier \in EarlierCloses :
          goldPrices = RecomputeRows(closes, earlier)
    /\ QuantIdle
    /\ PatternsIdle

\* the recompute, and detectPatterns reading the table between its updates
NextRecompute == MetricsStart \/ MetricsUpdate \/ MetricsReturn \/ DetectCall(0, 0)

SpecRecompute == InitRecompute /\ [][NextRecompute]_vars

\* the rows as they are once the call that read calc.prices has returned
Recomputed(prices) ==
    [k \in 1..Len(prices) |-> PrismaUpdate(prices[k], DerivedMetrics(prices, k))]

\* the table while the loop is at index i: new metrics before it, the rows as
\* read from it on
MixedRows(prices, recomputed, i) ==
    {IF k < i THEN recomputed[k] ELSE prices[k] : k \in 1..Len(prices)}

\* every derived field agrees with the closes of the rows
IsRecomputed(prices) == prices = Recomputed(prices)

\* C24: calculateDerivedMetrics is not atomic: it writes one row per step, so
\* while it runs the rows before the loop index carry the new metrics and the
\* rows from the index on the old ones, and a reader sees that mix; once the
\* call has returned, the derived fields of every row agree with the closes
\* of the table.
C24_RowByRow ==
    /\ [](calc.pc = "loop" => goldPrices = MixedRows(calc.prices, Recomputed(calc.prices), calc.i))
    /\ [](calc.pc = "done" => IsRecomputed(OrderedByDate(goldPrices)))
    /\ [][(calc.pc = "loop" /\ goldPrices' /= goldPrices) =>
             /\ Cardinality(goldPrices' \ goldPrices) = 1
             /\ calc'.i = calc.i + 1]_vars

\* detectPatterns ran when the rows up to the rise of day 25 had their new
\* metrics and the later rows the old ones: it returns a volatility spike on
\* day 25 that neither the old nor the new metrics give
C24_Witness ==
    /\ calc.pc = "loop"
    /\ calc.i = 26
    /\ \E i \in 1..Len(detected) :
          /\ detected[i].patternType = "high_volatility_spike"
          /\ detected[i].startDate = 25
    /\ detectVolatilitySpikes(calc.prices) = <<>>
    /\ detectVolatilitySpikes(Recomputed(calc.prices)) = <<>>
    /\ \E p \in goldPrices : p.date = 26 /\ p.volatility7d = N(0)

----------------------------------------------------------------------------
(* Lookups by id: calculateImpactScore, the feedback requests, the analyze POST *)

\* human scores and 1-10 ratings a client may send, in and out of range
AnyScores == {N(40), N(-100), N(250), Null}
AnyRatings == {N(8), N(10), N(11), Null}

\* ids of articles and prices a caller may name: stored ones and one of no row
LookupArticleIds == {1, 9}
LookupPriceIds == {2, 4, 9}

NextLookups ==
    \/ \E b \in PostBodies, f \in FetchedLists : PostStart(b, f)
    \/ PostFindPrice
    \/ PostCreatePrice
    \/ PostStoreArticle
    \/ PostUpsertQuant
    \/ \E id \in FeedbackIds, h \in AnyScores : SubmitFeedback(id, h)
    \/ \E id \in FeedbackIds, r \in AnyRatings : RatingPut(id, r)
    \/ \E a \in LookupArticleIds, p \in LookupPriceIds : ImpactCall(a, p)

SpecLookups == Init /\ [][NextLookups]_vars

C17_HumanScoreInRange ==
    \A q \in quantifications :
        q.humanVerified => InRange(q.humanScore, -100, 100)

----------------------------------------------------------------------------
(* CSV import (brain.ts, CsvImportService).  A Close cell is a sequence of  *)
(* characters, a Date cell a string; "" and <<>> are empty cells.            *)

Digits == <<"0", "1", "2", "3", "4", "5", "6", "7", "8", "9">>

IsDigit(c) == \E i \in 1..Len(Digits) : Digits[i] = c

DigitValue(c) == (CHOOSE i \in 1..Len(Digits) : Digits[i] = c) - 1

RECURSIVE NumericPrefix(_)
\* the longest prefix of the cell that parseFloat reads as a number
NumericPrefix(cell) ==
    IF cell = <<>> \/ ~IsDigit(Head(cell)) THEN <<>>
    ELSE <<Head(cell)>> \o NumericPrefix(Tail(cell))

RECURSIVE DecimalValue(_)
DecimalValue(ds) ==
    IF ds = <<>> THEN 0
    ELSE DecimalValue(SubSeq(ds, 1, Len(ds) - 1)) * 10 + DigitValue(ds[Len(ds)])

\* parseFloat: the number at the start of the string, NaN when there is none
parseFloat(cell) ==
    IF NumericPrefix(cell) = <<>> THEN NaN ELSE N(DecimalValue(NumericPrefix(cell)))

\* the dates the four formats of parseCsvDate read, as days
KnownDates == [d \in {"2 Jan 2024", "2024-01-03"} |-> IF d = "2 Jan 2024" THEN 2 ELSE 3]

\* parseCsvDate: throws on a string that none of the formats reads
parseCsvDate(dateStr) ==
    IF dateStr \in DOMAIN KnownDates THEN [ok |-> TRUE, date |-> KnownDates[dateStr]]
    ELSE [ok |-> FALSE]

\* prisma.goldPrice.upsert({ where: { date } })
UpsertPrice(prices, date, closePrice) ==
    IF \E p \in prices : p.date = date
    THEN {IF p.date = date THEN PrismaUpdate(p, [closePrice |-> closePrice]) ELSE p :
            p \in prices}
    ELSE prices \cup {PriceRow(date, closePrice, Null, Null)}

\* one pass of the loop of importFromCsvContent
ImportRow(acc, row) ==
    IF row.Date = "" \/ row.Close = <<>>
    THEN [acc EXCEPT !.skipped = @ + 1]
    ELSE IF ~parseCsvDate(row.Date).ok
    THEN [acc EXCEPT !.errors = Append(@, [error |-> "Error processing row", Date |-> row.Date])]
    ELSE IF IsNaN(parseFloat(row.Close))
    THEN [acc EXCEPT !.errors = Append(@, [error |-> "Invalid price", Date |-> row.Date])]
    ELSE [acc EXCEPT !.prices = UpsertPrice(@, parseCsvDate(row.Date).date,
                                            parseFloat(row.Close)),
                     !.imported = @ + 1]

RECURSIVE ImportRows(_, _)
ImportRows(acc, rows) ==
    IF rows = <<>> THEN acc ELSE ImportRows(ImportRow(acc, Head(rows)), Tail(rows))

\* importFromCsvContent on the rows parseCsv has read from the content
importFromCsvContent(prices, rows) ==
    ImportRows([prices |-> prices, imported |-> 0, skipped |-> 0, errors |-> <<>>], rows)

\* the rows written and the counts returned by one call
ImportReturns(rows, done) ==
    /\ goldPrices' = done.prices
    /\ csv' = [status |-> "ok", rows |-> rows, imported |-> done.imported,
               skipped |-> done.skipped, errors |-> done.errors]
    /\ UNCHANGED <<newsArticles, quantifications, qrun, post, lastCall, impact>>
    /\ UNCHANGED <<patternVars, predictVars, swings, calc, train>>

ImportCsv(rows) == ImportReturns(rows, importFromCsvContent(goldPrices, rows))

CsvDateCells == {"", "2 Jan 2024", "2024-01-03", "someday"}
CsvCloseCells == {<<>>, <<"1", "2">>, <<"x">>, <<"1", "x">>}
CsvRows == [Date : CsvDateCells, Close : CsvCloseCells]
CsvContents == {<<>>} \cup {<<r>> : r \in CsvRows} \cup {<<r, q>> : r \in CsvRows, q \in CsvRows}

NextImport == \E rows \in CsvContents : ImportCsv(rows)

SpecImport == Init /\ [][NextImport]_vars

\* C19: importFromCsvContent stores no price for a row whose Close is not a
\* number (it adds an error string instead), and imported + skipped +
\* errors.length equals the number of data rows.
C19_NonNumericRejected ==
    csv.status = "ok" =>
        LET IsNumber(cell) == cell /= <<>> /\ \A i \in 1..Len(cell) : IsDigit(cell[i])
            rows == csv.rows
            stored == {k \in 1..Len(rows) :
                         \E p \in goldPrices : /\ parseCsvDate(rows[k].Date).ok
                                                /\ p.date = parseCsvDate(rows[k].Date).date
                                                /\ rows[k].Date /= "" /\ rows[k].Close /= <<>>
                                                /\ p.closePrice = parseFloat(rows[k].Close)}
        IN  /\ csv.imported + csv.skipped + Len(csv.errors) = Len(rows)
            /\ csv.imported <= Cardinality({k \in 1..Len(rows) : IsNumber(rows[k].Close)})
            /\ \A k \in stored : IsNumber(rows[k].Close)
----------------------------------------------------------------------------
(* trainPatternModel over short series *)

TrainLen == 16

\* the largest number of epochs asked for
MaxEpochs == 3

TrainShapes == {"flat", "rise", "fall", "dip"}

\* closes of 100 that move on day 13
TrainClose(shape, k) ==
    CASE shape = "flat" -> 100
      [] shape = "rise" -> IF k < 13 THEN 100 ELSE 110
      [] shape = "fall" -> IF k < 13 THEN 100 ELSE 90
      [] shape = "dip" -> IF k = 13 THEN 95 ELSE 100

\* <<sma50, sma200>>: set on days 12 and 13 only, crossing between them
TrainSma(sma, k) ==
    IF k \notin {12, 13} \/ sma = "none" THEN <<Null, Null>>
    ELSE IF sma = "golden" THEN (IF k = 12 THEN <<N(101), N(102)>> ELSE <<N(103), N(102)>>)
    ELSE (IF k = 12 THEN <<N(103), N(102)>> ELSE <<N(101), N(102)>>)

\* volatility7d: 1 on every day, or doubling on day 13
TrainVolatility(vol, k) == IF vol = "spike" /\ k >= 13 THEN N(2) ELSE N(1)

TrainSeries ==
    {{[PriceRow(k, N(TrainClose(shape, k)), IF k = 13 THEN change ELSE Null,
                TrainVolatility(vol, k))
         EXCEPT !.sma50 = TrainSma(sma, k)[1], !.sma200 = TrainSma(sma, k)[2]]
      : k \in 1..TrainLen}
     : shape \in TrainShapes, sma \in {"none", "golden", "death"},
       vol \in {"equal", "spike"}, change \in {Null, N(1), N(-1)}}

\* the TrainingConfig of a call: a window with and without closes older than
\* the last ten
TrainConfigs ==
    [epochs : 1..MaxEpochs, learningRate : {R(1, 100)}, windowSize : {5, 10},
     predictionHorizon : {2}]

InitTrain ==
    /\ goldPrices \in TrainSeries
    /\ QuantIdle
    /\ PatternsIdle

NextTrain == (\E config \in TrainConfigs : TrainStart(config)) \/ TrainEpoch \/ TrainReturn

SpecTrain == InitTrain /\ [][NextTrain]_vars

\* C30: trainPatternModel ends after exactly config.epochs epochs and returns
\* that many results, numbered 1..epochs in order; the per-pattern counters are
\* not reset between epochs, so the occurrences of every pattern at epoch k are
\* k times those at epoch 1 and never decrease.  (Every step of a running call
\* is one more epoch below config.epochs, or the return at config.epochs.)
C30_EpochsAccumulate ==
    /\ [](train.pc /= "idle" =>
            /\ train.epoch <= train.config.epochs
            /\ Len(train.results) = train.epoch
            /\ \A k \in 1..Len(train.results) :
                  /\ train.results[k].epoch = k
                  /\ \A n \in 1..Len(patternNames) :
                        /\ train.results[k].patternWeights[n].pattern = patternNames[n]
                        /\ train.results[k].patternWeights[n].occurrences =
                              k * train.results[1].patternWeights[n].occurrences
                        /\ k > 1 => train.results[k].patternWeights[n].occurrences >=
                                       train.results[k - 1].patternWeights[n].occurrences)
    /\ [](train.pc = "done" => Len(train.results) = train.config.epochs)
    /\ [][train.pc = "loop" =>
             \/ /\ train.epoch < train.config.epochs
                /\ train'.pc = "loop"
                /\ train'.epoch = train.epoch + 1
             \/ /\ train.epoch = train.config.epochs
                /\ train'.pc = "done"
                /\ train'.results = train.results]_vars

\* three epochs have returned over a series with one golden cross and a
\* breakout in two of the four rows trained on
C30_Witness ==
    /\ train.pc = "done"
    /\ train.config.epochs = 3
    /\ train.config.windowSize = 10
    /\ Len(train.results) = 3
    /\ train.results[1].patternWeights[1].occurrences = 1
    /\ train.results[3].patternWeights[1].occurrences = 3
    /\ train.results[1].patternWeights[3].occurrences = 2
    /\ train.results[3].patternWeights[3].occurrences = 6

====
